---- MODULE Spec2Model ----
(***************************************************************************)
(* life-puzzle (src/app.js): the reveal/progress state machine of the      *)
(* jigsaw, the session-completion contract, the grid migration, and the    *)
(* handlers that replace or repaint the in-memory project list.            *)
(*                                                                         *)
(* Project objects live in a heap (JavaScript object identity matters:     *)
(* `projects`, Store.cache, `selected`, Puzzle.project and the closures of *)
(* pending image loads may or may not hold the same object).               *)
(***************************************************************************)
EXTENDS Integers, Sequences, FiniteSets, TLC

VARIABLES
  pc,          \* position in the script: "init", "migrate", "run"; "api" in SpecReveal
  heap,        \* the live project objects: reference n is heap[n]
  projects,    \* global `projects`: sequence of object references
  selectedId,  \* global `selectedId`
  selected,    \* global `selected`: an object reference or Null
  puzzle,      \* els.puzzle.project: an object reference or Null
  cache,       \* Store.cache: sequence of object references
  user,        \* firebase.auth().currentUser: NoUser or a uid
  authCur,     \* Auth.current: NoUser or a uid
  unsub,       \* Store.unsub: TRUE while the onSnapshot listener is attached
  snapDue,     \* the listener has a snapshot to deliver
  localStore,  \* localStorage, project lists: user key -> sequence of stored records
  selStore,    \* localStorage, selected ids: user key -> id (NoId when absent)
  remote,      \* Firestore users/<uid>/projects as this client sees it: sequence of documents
  tasks,       \* pending asynchronous continuations, oldest first
  used,        \* how many sessions, auth changes and new projects the behaviour has had
  timer,       \* the Timer object and the intervals the window holds for it
  ev,          \* what the last step did (history, read by the properties only)
  call         \* what the last drawing call produced: edges, the signs of the pieces,
               \* an outline, a stage size (read by the properties only)

vars == <<pc, heap, projects, selectedId, selected, puzzle, cache, user, authCur, unsub,
          snapDue, localStore, selStore, remote, tasks, used, timer, ev, call>>

----------------------------------------------------------------------------
(* Bounds of the model *)

MaxObj == 5        \* live project objects
MaxSeed == 1       \* random sources 0..MaxSeed
RandDen == 4       \* a random draw is n/RandDen, n \in 0..RandDen-1
MaxSessions == 2   \* session completions in one behaviour
MaxAuth == 1       \* login / logout clicks in one behaviour
MaxNew == 1        \* projects created in one behaviour
MaxCalls == 2      \* reveal calls and sessions in one behaviour of SpecReveal
MaxTasks == 2      \* continuations pending at once
MaxLoads == 1      \* page reloads in one behaviour of SpecMigrate
MaxEvents == 2     \* user events (clicks, timer, resize) in one behaviour

(* Program constants *)

FixedRows == 10
FixedCols == 10
FixedTotal == 100
Uid == 1

Null == 0
NoId == 0
NoUser == 0
NoProgress == 0 - 1      \* `progress` absent from a stored record
NoEdges == << >>         \* `hEdges` / `vEdges` absent from a record
NoObj == [id |-> NoId]

Seeds == 0 .. MaxSeed

Min(a, b) == IF a < b THEN a ELSE b
Max(a, b) == IF a > b THEN a ELSE b

----------------------------------------------------------------------------
(* Arithmetic of the code *)

\* clamp(n, min, max)
clamp(n, lo, hi) == Min(hi, Max(lo, n))

\* Math.round(n / d) for d > 0: the nearest integer, halves towards +infinity.
Round(n, d) == (2 * n + d) \div (2 * d)

\* Math.round((n / total) * 100) on IEEE doubles. n / total is rounded to a double before
\* it is multiplied by 100: 23/40 and 46/80 give 57.49999999999999, which rounds to 57.
\* For every other n <= total <= 100 the result is the exact quotient rounded half up.
DoubleBelowHalf == {<<23, 40>>, <<46, 80>>}
RoundPct(n, total) ==
  IF <<n, total>> \in DoubleBelowHalf THEN Round(n * 100, total) - 1 ELSE Round(n * 100, total)

\* Math.random(): the k-th draw (k = 0, 1, ...) of source s, as a numerator over RandDen.
Draw(s, k) == (s * (k + 1)) % RandDen

\* Math.floor(Math.random() * n)
RandomIndex(s, k, n) == (Draw(s, k) * n) \div RandDen

\* rng.random() > 0.5 ? 1 : -1
EdgeSignFlat(s, k) == 0
EdgeSignAtHalf(s, k) == IF 2 * Draw(s, k) >= RandDen THEN 1 ELSE 0 - 1
EdgeSign(s, k) == IF 2 * Draw(s, k) > RandDen THEN 1 ELSE 0 - 1

\* makeEdges(rows, cols): h is (rows-1) x cols, v is rows x (cols-1); the draws are
\* consumed row by row, h first, starting with draw k0 of source s.
makeEdges(rows, cols, s, k0) ==
  [h |-> [r \in 1 .. rows - 1 |-> [c \in 1 .. cols |->
            EdgeSign(s, k0 + (r - 1) * cols + (c - 1))]],
   v |-> [r \in 1 .. rows |-> [c \in 1 .. cols - 1 |->
            EdgeSign(s, k0 + (rows - 1) * cols + (r - 1) * (cols - 1) + (c - 1))]]]

\* the number of draws one makeEdges call takes
EdgeDraws(rows, cols) == (rows - 1) * cols + rows * (cols - 1)

----------------------------------------------------------------------------
(* Arrays *)

Range(s) == {s[i] : i \in 1 .. Len(s)}

\* [a[i], a[j]] = [a[j], a[i]] on 0-based positions i, j
SwapCopy(a, i, j) == [a EXCEPT ![i + 1] = a[j + 1]]
Swap(a, i, j) == [a EXCEPT ![i + 1] = a[j + 1], ![j + 1] = a[i + 1]]

Slice0Short(a, end) == SubSeq(a, 1, Min(end, Len(a)) - 1)
\* a.slice(0, end): a negative end counts from the end of the array
Slice0(a, end) ==
  IF end < 0 THEN SubSeq(a, 1, Max(Len(a) + end, 0)) ELSE SubSeq(a, 1, Min(end, Len(a)))

\* [...new Set(a)]: the elements of a (none negative) in order of first occurrence
SetOrder(a) ==
  SelectSeq([i \in 1 .. Len(a) |-> IF \E j \in 1 .. i - 1 : a[j] = a[i] THEN 0 - 1 ELSE a[i]],
            LAMBDA x : x >= 0)

\* for (let i = a.length - 1; i > 0; i--) { j = floor(random * (i + 1)); swap(a[i], a[j]) }
\* One pass of the loop body at position i; the pass at i takes draw k0 + (n - 1 - i)
\* of source s, n the length of a.
ShuffleStep(a, i, s, k0) == Swap(a, i, RandomIndex(s, k0 + (Len(a) - 1 - i), i + 1))

\* The passes hi, hi-1, ..., lo in that order. The range is halved, and the array
\* left by the upper half is computed before the lower half starts, only to keep the
\* evaluation shallow; the passes and their order are the loop's.
RECURSIVE ShufflePasses(_, _, _, _, _)
ShufflePasses(a, hi, lo, s, k0) ==
  IF hi < lo THEN a
  ELSE IF hi = lo THEN ShuffleStep(a, hi, s, k0)
  ELSE LET mid == (hi + lo) \div 2
       IN CHOOSE r \in {ShufflePasses(upper, mid, lo, s, k0) :
                          upper \in {ShufflePasses(a, hi, mid + 1, s, k0)}} : TRUE

Shuffle(a, s, k0) == ShufflePasses(a, Len(a) - 1, 1, s, k0)

\* the number of draws one shuffle of n elements takes
ShuffleDraws(n) == Max(n - 1, 0)

----------------------------------------------------------------------------
(* Records *)

\* A project object. imageRef, imageDataUrl, imageUrl (_imageUrl) and imageAspect
\* name the image they come from (the id of the project the image was chosen for),
\* 0 when the field is absent. createdAt is Date.now() at creation.
Project(id, rows, cols, revealed, progress, edges, imageRef) ==
  [id |-> id, rows |-> rows, cols |-> cols, revealed |-> revealed, progress |-> progress,
   hEdges |-> edges.h, vEdges |-> edges.v, imageRef |-> imageRef, imageDataUrl |-> 0,
   imageUrl |-> 0, imageAspect |-> 0, createdAt |-> id]

Total(p) == p.rows * p.cols

\* JSON.stringify of a 2D edge array, as its token sequence: LBr, RBr, Comma, or a sign.
LBr == 2
RBr == 3
Comma == 4
NoString == << >>

JoinRow(row) ==
  LET F[i \in 0 .. Len(row)] ==
        IF i = 0 THEN << >>
        ELSE IF i = 1 THEN <<row[1]>> ELSE F[i - 1] \o <<Comma, row[i]>>
  IN <<LBr>> \o F[Len(row)] \o <<RBr>>

Stringify(a) ==
  LET F[i \in 0 .. Len(a)] ==
        IF i = 0 THEN << >>
        ELSE IF i = 1 THEN JoinRow(a[1]) ELSE F[i - 1] \o <<Comma>> \o JoinRow(a[i])
  IN <<LBr>> \o F[Len(a)] \o <<RBr>>

\* JSON.parse of such a text: one row per inner bracket pair, the signs between them
ParseOneRow(t) == <<SelectSeq(t, LAMBDA x : x \notin {LBr, RBr, Comma})>>
Parse(t) ==
  LET opens == {i \in 2 .. Len(t) : t[i] = LBr}
      Nth(r) == CHOOSE o \in opens : Cardinality({x \in opens : x <= o}) = r
      Close(o) == CHOOSE c \in o + 1 .. Len(t) :
                    t[c] = RBr /\ \A x \in o + 1 .. c - 1 : t[x] # RBr
  IN [r \in 1 .. Cardinality(opens) |->
        SelectSeq(SubSeq(t, Nth(r) + 1, Close(Nth(r)) - 1), LAMBDA x : x # Comma)]

\* Store._saveLocal strips image, _imageUrl and imageDataUrl; JSON keeps the rest.
Slim(p) == [p EXCEPT !.imageDataUrl = 0, !.imageUrl = 0]

\* Store._toRemoteDoc
ToRemoteDoc(p) ==
  [id |-> p.id, rows |-> p.rows, cols |-> p.cols, revealed |-> p.revealed,
   progress |-> p.progress, imageRef |-> p.imageRef, imageAspect |-> p.imageAspect,
   createdAt |-> p.createdAt,
   hEdgesS |-> IF p.hEdges # NoEdges THEN Stringify(p.hEdges) ELSE NoString,
   vEdgesS |-> IF p.vEdges # NoEdges THEN Stringify(p.vEdges) ELSE NoString,
   imageDataUrl |-> p.imageDataUrl]

\* Store._fromRemoteDoc
FromRemoteDoc(id, d) ==
  [id |-> IF "id" \in DOMAIN d THEN d.id ELSE id, rows |-> d.rows, cols |-> d.cols, revealed |-> d.revealed,
   progress |-> d.progress, imageRef |-> d.imageRef, imageAspect |-> d.imageAspect,
   createdAt |-> d.createdAt,
   hEdges |-> IF d.hEdgesS # NoString THEN Parse(d.hEdgesS) ELSE NoEdges,
   vEdges |-> IF d.vEdgesS # NoString THEN Parse(d.vEdgesS) ELSE NoEdges,
   imageDataUrl |-> d.imageDataUrl, imageUrl |-> 0]

----------------------------------------------------------------------------
(* The program state as one record, so that a handler and the calls it makes *)
(* compose: every function below maps a state to the state it leaves.      *)
(* seed and rk are the random source of the step and the number of its     *)
(* next draw; ret carries the array a called function returns; saveFails  *)
(* tells whether the storage (localStorage.setItem, batch.commit) fails   *)
(* during the step.                                                       *)

NoCall == [fn |-> "none"]

\* const Timer = { running: false, seconds: 25*60, left: 25*60, id: null, ... }; intervals
\* are the handles of the window's active setInterval timers
Timer0 == [running |-> FALSE, seconds |-> 25 * 60, left |-> 25 * 60, id |-> Null, intervals |-> {}]

EvNone ==
  [op |-> "none", rendered |-> << >>, rvCalled |-> FALSE, rvCount |-> 0, rvRet |-> 0,
   rvPick |-> << >>, rvBefore |-> NoObj, rvAfter |-> NoObj, need |-> 0, pct2 |-> 0,
   selBefore |-> NoObj, selAfter |-> NoObj, migrated |-> << >>,
   saveFailed |-> FALSE, thrown |-> FALSE, deleted |-> NoId,
   delta |-> 0, completed |-> FALSE, atCall |-> Timer0]

Cur(seed) ==
  [heap |-> heap, projects |-> projects, selectedId |-> selectedId, selected |-> selected,
   puzzle |-> puzzle, cache |-> cache, user |-> user, authCur |-> authCur, unsub |-> unsub,
   snapDue |-> snapDue, localStore |-> localStore, selStore |-> selStore, remote |-> remote,
   tasks |-> tasks, timer |-> timer, ev |-> EvNone, call |-> call, seed |-> seed, rk |-> 0, ret |-> << >>,
   saveFails |-> FALSE]

\* Auth.userKey(): the uid of Auth.current, or 'guest' (NoUser)
userKey(S) == S.authCur

\* an object of the heap, by reference
Obj(S, ref) == S.heap[ref]

\* new objects for the records recs; their references are Len(S.heap)+1 ..
AllocAll(S, recs) == [S EXCEPT !.heap = @ \o recs]
NewRefs(S, recs) == [i \in 1 .. Len(recs) |-> Len(S.heap) + i]

\* list.find(p => p.id === id) || null
FindById(S, list, id) ==
  LET hits == {i \in 1 .. Len(list) : Obj(S, list[i]).id = id}
  IN IF hits = {} THEN Null ELSE list[CHOOSE i \in hits : \A j \in hits : i <= j]

\* list.findIndex(x => x.id === id), 1-based; 0 when there is none
FindIndexById(S, list, id) ==
  LET hits == {i \in 1 .. Len(list) : Obj(S, list[i]).id = id}
  IN IF hits = {} THEN 0 ELSE CHOOSE i \in hits : \A j \in hits : i <= j

\* `projects = ...`: a save that still awaits its commit keeps the array it was given
SetProjects(S, list) ==
  [S EXCEPT !.projects = list,
            !.tasks = [i \in DOMAIN @ |->
                         IF @[i].kind = "save" /\ @[i].live
                           THEN [@[i] EXCEPT !.live = FALSE, !.list = S.projects]
                           ELSE @[i]]]

----------------------------------------------------------------------------
(* Store *)

\* Store._saveLocal(projects), under Store.key()
saveLocal(S, list) ==
  [S EXCEPT !.localStore[userKey(S)] = [i \in 1 .. Len(list) |-> Slim(Obj(S, list[i]))]]

\* batch.set(ref, doc, {merge: true}) on a collection ordered by createdAt
Upsert(docs, d) ==
  IF \E i \in 1 .. Len(docs) : docs[i].id = d.id
    THEN [i \in 1 .. Len(docs) |-> IF docs[i].id = d.id THEN d ELSE docs[i]]
    ELSE SelectSeq(docs, LAMBDA x : x.createdAt <= d.createdAt) \o <<d>>
         \o SelectSeq(docs, LAMBDA x : x.createdAt > d.createdAt)

UpsertAll(S, docs, list) ==
  LET F[i \in 0 .. Len(list)] ==
        IF i = 0 THEN docs ELSE Upsert(F[i - 1], ToRemoteDoc(Obj(S, list[i])))
  IN F[Len(list)]

\* A pending continuation: the object and the array its closure holds (ref, list),
\* the id and the image or uid it was started with (id, what). A save continuation
\* whose array is still the global `projects` array is live; `what` of a save names
\* the project whose reveal started it (0 for the other saves).
Task(kind, ref, id, what) ==
  [kind |-> kind, live |-> FALSE, list |-> << >>, ref |-> ref, id |-> id, what |-> what]

SaveTask(thenSelect) == [Task("save", Null, thenSelect, 0) EXCEPT !.live = TRUE]

\* Store._loadLocal(): the stored list of Store.key() as new objects (in ret)
loadLocal(S) ==
  LET recs == S.localStore[userKey(S)]
  IN [AllocAll(S, recs) EXCEPT !.ret = NewRefs(S, recs)]

\* Store.load(): the cached objects themselves, or the stored list when the cache is empty
load(S) == IF Len(S.cache) > 0 THEN [S EXCEPT !.ret = S.cache] ELSE loadLocal(S)

\* Store.selectedId()
storedSelectedId(S) == S.selStore[userKey(S)]

\* Store.save(projects), up to its await: a guest saves locally; a signed-in user
\* writes every project to the collection and saves locally once the commit resolves
\* (thenSelect: the id the caller selects after awaiting the save, NoId if it does not wait).
SaveThrows(S) == [S EXCEPT !.ev.saveFailed = TRUE, !.ev.thrown = TRUE]
\* `async save(projects)`: an exception of _saveLocal or a rejected batch.commit() rejects
\* the promise Store.save returns; nothing is written and the caller is not interrupted
SaveRejected(S) == [S EXCEPT !.ev.saveFailed = TRUE]

Store_save(S, thenSelect) ==
  IF S.saveFails THEN SaveRejected(S)
  ELSE IF S.user = NoUser THEN saveLocal(S, S.projects)
  ELSE [S EXCEPT !.remote = UpsertAll(S, @, S.projects),
                 !.snapDue = S.unsub,
                 !.tasks = Append(@, SaveTask(thenSelect))]

\* saveAll()
saveAll(S) == Store_save(S, NoId)

----------------------------------------------------------------------------
(* Puzzle.reveal *)

\* the hidden cells, ascending: for (i = 0; i < total; i++) if (!revealedSet.has(i)) push
HiddenAll(total, revealedSet) == [i \in 1 .. total |-> i - 1]
Hidden(total, revealedSet) ==
  SelectSeq([i \in 1 .. total |-> i - 1], LAMBDA x : x \notin Range(revealedSet))

\* Math.min(count, hidden.length)
ToRevealUnclamped(count, n) == count
ToReveal(count, n) == Min(count, n)

\* p.progress = Math.round((p.revealed.length / total) * 100)
ProgressOfFloor(n, total) == (n * 100) \div total
ProgressOf(n, total) == RoundPct(n, total)

\* reveal(count) on project p with random source s from draw k0:
\* the cells picked and the project as it is left
RevealPick(p, count, s, k0) ==
  LET revealedSet == SetOrder(p.revealed)
      hidden == Hidden(Total(p), revealedSet)
  IN Slice0(Shuffle(hidden, s, k0), ToReveal(count, Len(hidden)))

RevealedOnlyPick(p, pick) ==
  [p EXCEPT !.revealed = pick, !.progress = ProgressOf(Len(pick), Total(p))]
Revealed(p, pick) ==
  LET revealed == SetOrder(p.revealed) \o pick
  IN [p EXCEPT !.revealed = revealed, !.progress = ProgressOf(Len(revealed), Total(p))]

\* the saves reveal has started (the tasks after the first n) carry the id of the
\* project it revealed on, in `what`
SavesOfReveal(S, n, id) ==
  [S EXCEPT !.tasks = [i \in DOMAIN S.tasks |->
                         IF i > n /\ S.tasks[i].kind = "save"
                           THEN [S.tasks[i] EXCEPT !.what = id]
                           ELSE S.tasks[i]]]

reveal(S, count) ==
  IF S.puzzle = Null
    THEN [S EXCEPT !.ev.rvCalled = TRUE, !.ev.rvCount = count, !.ev.rvRet = 0]
  ELSE
    LET p == Obj(S, S.puzzle)
        nHidden == Len(Hidden(Total(p), SetOrder(p.revealed)))
        pick == RevealPick(p, count, S.seed, S.rk)
        p2 == Revealed(p, pick)
        S1 == [S EXCEPT !.heap[S.puzzle] = p2,
                        !.rk = @ + ShuffleDraws(nHidden),
                        !.ev.rvCalled = TRUE, !.ev.rvCount = count,
                        !.ev.rvRet = ToReveal(count, nHidden),
                        !.ev.rvPick = pick, !.ev.rvBefore = p, !.ev.rvAfter = p2]
    IN SavesOfReveal(saveAll(S1), Len(S1.tasks), p.id)

----------------------------------------------------------------------------
(* Rendering and selection *)

\* Puzzle.render, the size of the stage: the container is width x height and the aspect
\* ratio of the image is num / den (p.imageAspect || 16/10)
Margin == 24
MinStage == 200

StageSize(width, height, num, den) ==
  LET maxW == Max(MinStage, width - Margin)
      maxH == Max(MinStage, height - Margin)
      W == maxW
      H == (W * den) \div num
  IN IF H > maxH THEN [W |-> (maxH * num) \div den, H |-> maxH] ELSE [W |-> W, H |-> H]

\* piecePath(w, h, edgeTop, edgeRight, edgeBottom, edgeLeft): the commands of the path,
\* each one a tuple of its letter and its numbers; lengths are in thousandths of a pixel,
\* so that neck = min(w, h) * 0.23 * 0.4 and ctrl = min(w, h) * 0.23 * 0.6 are integers
Milli == 1000
NeckMilli == 92
CtrlMilli == 138

TopEdge(w, h, sign) ==
  LET neck == NeckMilli * Min(w, h)
      ctrl == CtrlMilli * Min(w, h)
      y == 0
      mid == (Milli * w) \div 2
  IN IF sign = 0 THEN << <<"L", Milli * w, 0>> >>
     ELSE << <<"L", mid - neck, y>>,
             <<"C", mid - neck, y, mid - neck, y - sign * ctrl, mid, y - sign * ctrl>>,
             <<"C", mid + neck, y - sign * ctrl, mid + neck, y, mid + neck, y>>,
             <<"L", Milli * w, y>> >>

RightEdge(w, h, sign) ==
  LET neck == NeckMilli * Min(w, h)
      ctrl == CtrlMilli * Min(w, h)
      x == Milli * w
      mid == (Milli * h) \div 2
  IN IF sign = 0 THEN << <<"L", Milli * w, Milli * h>> >>
     ELSE << <<"L", x, mid - neck>>,
             <<"C", x, mid - neck, x + sign * ctrl, mid - neck, x + sign * ctrl, mid>>,
             <<"C", x + sign * ctrl, mid + neck, x, mid + neck, x, mid + neck>>,
             <<"L", x, Milli * h>> >>

BottomEdge(w, h, sign) ==
  LET neck == NeckMilli * Min(w, h)
      ctrl == CtrlMilli * Min(w, h)
      y == Milli * h
      mid == (Milli * w) \div 2
  IN IF sign = 0 THEN << <<"L", 0, Milli * h>> >>
     ELSE << <<"L", mid + neck, y>>,
             <<"C", mid + neck, y, mid + neck, y + sign * ctrl, mid, y + sign * ctrl>>,
             <<"C", mid - neck, y + sign * ctrl, mid - neck, y, mid - neck, y>>,
             <<"L", 0, y>> >>

LeftEdgeOpen(w, h, sign) ==
  LET neck == NeckMilli * Min(w, h)
      ctrl == CtrlMilli * Min(w, h)
      x == 0
      mid == (Milli * h) \div 2
  IN IF sign = 0 THEN << <<"Z">> >>
     ELSE << <<"L", x, mid + neck>>,
             <<"C", x, mid + neck, x - sign * ctrl, mid + neck, x - sign * ctrl, mid>>,
             <<"C", x - sign * ctrl, mid - neck, x, mid - neck, x, mid - neck>>,
             <<"Z">> >>

LeftEdge(w, h, sign) ==
  LET neck == NeckMilli * Min(w, h)
      ctrl == CtrlMilli * Min(w, h)
      x == 0
      mid == (Milli * h) \div 2
  IN IF sign = 0 THEN << <<"Z">> >>
     ELSE << <<"L", x, mid + neck>>,
             <<"C", x, mid + neck, x - sign * ctrl, mid + neck, x - sign * ctrl, mid>>,
             <<"C", x - sign * ctrl, mid - neck, x, mid - neck, x, mid - neck>>,
             <<"L", 0, 0>>,
             <<"Z">> >>

piecePath(w, h, edgeTop, edgeRight, edgeBottom, edgeLeft) ==
  << <<"M", 0, 0>> >> \o TopEdge(w, h, edgeTop) \o RightEdge(w, h, edgeRight)
    \o BottomEdge(w, h, edgeBottom) \o LeftEdge(w, h, edgeLeft)

\* the signs Puzzle.render and renderPreviewPuzzle pass to piecePath for the piece of
\* row r, column c (from 0): top, right, bottom, left
PieceSignsSame(hEdges, vEdges, rows, cols, r, c) ==
  [top |-> IF r = 0 THEN 0 ELSE hEdges[r][c + 1],
   right |-> IF c = cols - 1 THEN 0 ELSE vEdges[r + 1][c + 1],
   bottom |-> IF r = rows - 1 THEN 0 ELSE hEdges[r + 1][c + 1],
   left |-> IF c = 0 THEN 0 ELSE vEdges[r + 1][c]]
PieceSignsFlatLeft(hEdges, vEdges, rows, cols, r, c) ==
  [top |-> IF r = 0 THEN 0 ELSE 0 - hEdges[r][c + 1],
   right |-> IF c = cols - 1 THEN 0 ELSE vEdges[r + 1][c + 1],
   bottom |-> IF r = rows - 1 THEN 0 ELSE hEdges[r + 1][c + 1],
   left |-> 0]
PieceSigns(hEdges, vEdges, rows, cols, r, c) ==
  [top |-> IF r = 0 THEN 0 ELSE 0 - hEdges[r][c + 1],
   right |-> IF c = cols - 1 THEN 0 ELSE vEdges[r + 1][c + 1],
   bottom |-> IF r = rows - 1 THEN 0 ELSE hEdges[r + 1][c + 1],
   left |-> IF c = 0 THEN 0 ELSE 0 - vEdges[r + 1][c]]

\* the pieces in the order of the two loops: piece i = r * cols + c
AllPieceSigns(hEdges, vEdges, rows, cols) ==
  [i \in 0 .. rows * cols - 1 |->
     PieceSigns(hEdges, vEdges, rows, cols, i \div cols, i % cols)]

\* `!p.hEdges || !p.vEdges`
LacksBothEdges(p) == p.hEdges = NoEdges /\ p.vEdges = NoEdges
LacksEdges(p) == p.hEdges = NoEdges \/ p.vEdges = NoEdges

RECURSIVE render(_), saveProject(_, _), updateToolbar(_), setProject(_, _)

\* Puzzle.render: lays the pieces of this.project out (recorded in ev.rendered as the
\* number of cells laid out) and generates the edges of a project that has none.
render(S) ==
  IF S.puzzle = Null THEN S
  ELSE
    LET p == Obj(S, S.puzzle)
        S1 == [S EXCEPT !.ev.rendered = Append(@, Total(p))]
    IN IF LacksEdges(p)
         THEN LET edges == makeEdges(p.rows, p.cols, S.seed, S.rk)
              IN saveProject([S1 EXCEPT !.heap[S.puzzle].hEdges = edges.h,
                                        !.heap[S.puzzle].vEdges = edges.v,
                                        !.rk = @ + EdgeDraws(p.rows, p.cols)],
                             S.puzzle)
         ELSE S1

\* Puzzle.setProject
setProject(S, ref) == render([S EXCEPT !.puzzle = ref])

\* updateToolbar
updateToolbar(S) == setProject(S, S.selected)

\* saveProject(p)
saveProject(S, ref) ==
  LET i == FindIndexById(S, S.projects, Obj(S, ref).id)
      S1 == IF i > 0 THEN [S EXCEPT !.projects[i] = ref]
            ELSE [S EXCEPT !.projects = Append(@, ref)]
  IN updateToolbar(saveAll(S1))

\* loadProjectImage(p, expectedId), up to its first await
loadProjectImage(S, ref, expectedId) ==
  LET p == Obj(S, ref)
  IN IF p.imageDataUrl # 0
       THEN IF S.selected = Null \/ Obj(S, S.selected).id # expectedId THEN S
            ELSE [S EXCEPT !.heap[ref].imageUrl = p.imageDataUrl,
                           !.tasks = Append(@, Task("probeP", ref, expectedId, p.imageDataUrl))]
       ELSE [S EXCEPT !.tasks = Append(@, Task("getUrl", ref, expectedId, p.imageRef))]

\* `if (selected) { if (selected.imageDataUrl) {...} else if (selected.imageRef) {...} }`
\* of selectProject and of the two Store.onAuthChanged blocks, up to the first await
startImage(S) ==
  IF S.selected = Null THEN S
  ELSE LET p == Obj(S, S.selected)
       IN IF p.imageDataUrl # 0
            THEN [S EXCEPT !.heap[S.selected].imageUrl = p.imageDataUrl,
                           !.tasks = Append(@, Task("probeSel", Null, NoId, p.imageDataUrl))]
          ELSE IF p.imageRef # 0 THEN loadProjectImage(S, S.selected, p.id)
          ELSE S

\* selectProject(id)
selectProject(S, id) ==
  LET S1 == [S EXCEPT !.selectedId = id,
                      !.selStore[userKey(S)] = id,
                      !.selected = FindById(S, S.projects, id)]
  IN startImage(updateToolbar(S1))

\* `projects = Store.load(); selectedId = Store.selectedId(); selected = projects.find(...);
\*  updateSidebar(); updateToolbar();`
loadGlobals(S) ==
  LET S1 == load(S)
      S2 == SetProjects(S1, S1.ret)
      id == storedSelectedId(S2)
  IN updateToolbar([S2 EXCEPT !.selectedId = id, !.selected = FindById(S2, S2.projects, id)])

\* ensureBase64ForExisting(), up to its first await: it walks the array `projects` names now
needsBase64(S, ref) == Obj(S, ref).imageDataUrl = 0 /\ Obj(S, ref).imageRef # 0

ensureBase64ForExisting(S) ==
  IF S.user = NoUser \/ \A i \in 1 .. Len(S.projects) : ~needsBase64(S, S.projects[i]) THEN S
  ELSE [S EXCEPT !.tasks = Append(@, [Task("ensure", Null, NoId, 0) EXCEPT !.list = S.projects])]

\* reloadUserData()
reloadUserData(S) == ensureBase64ForExisting(loadGlobals(S))

----------------------------------------------------------------------------
(* Store.onAuthChanged and the snapshot listener *)

\* Store.migrateGuestToUser(user), up to its await: the guest's stored projects are
\* written over the user's documents of the same id.
migrateGuestToUser(S) ==
  LET guest == S.localStore[NoUser]
      docs == [i \in 1 .. Len(guest) |-> ToRemoteDoc(guest[i])]
      F[i \in 0 .. Len(docs)] == IF i = 0 THEN S.remote ELSE Upsert(F[i - 1], docs[i])
  IN IF Len(guest) = 0 THEN S
     ELSE [S EXCEPT !.remote = F[Len(docs)],
                    !.tasks = Append(@, Task("migrateSel", Null, NoId, 0))]

\* Store.onAuthChanged(user)
onAuthChanged(S, u) ==
  LET S0 == [S EXCEPT !.unsub = FALSE, !.snapDue = FALSE]
      L == loadLocal(S0)
      S1 == [L EXCEPT !.cache = L.ret]
  IN IF u = NoUser THEN S1
     ELSE LET S2 == migrateGuestToUser(startImage(loadGlobals(S1)))
          IN [S2 EXCEPT !.unsub = TRUE, !.snapDue = TRUE]

\* the onSnapshot callback
onSnapshot(S) ==
  LET recs == [i \in 1 .. Len(S.remote) |-> FromRemoteDoc(S.remote[i].id, S.remote[i])]
      serverArr == NewRefs(S, recs)
      L == loadLocal(AllocAll(S, recs))
      offline == L.ret
      arr == IF Len(serverArr) = 0 /\ Len(offline) > 0 THEN offline ELSE serverArr
      S1 == saveLocal([L EXCEPT !.cache = arr, !.snapDue = FALSE], arr)
  IN startImage(loadGlobals(S1))

\* the onAuthStateChanged callback of Auth.init
authStateChanged(S, u) ==
  onAuthChanged(reloadUserData([S EXCEPT !.user = u, !.authCur = u]), u)

----------------------------------------------------------------------------
(* deleteProject *)

\* deleteProject(id) from `projects = projects.filter(x => x.id !== id)` on
deleteDone(S, id) ==
  LET list == SelectSeq(S.projects, LAMBDA r : Obj(S, r).id # id)
      S1 == SetProjects(S, list)
      S2 == IF S1.selected # Null /\ Obj(S1, S1.selected).id = id
              THEN IF Len(list) > 0
                     THEN [S1 EXCEPT !.selStore[userKey(S1)] = Obj(S1, list[1]).id,
                                     !.selectedId = Obj(S1, list[1]).id,
                                     !.selected = list[1]]
                     ELSE [S1 EXCEPT !.selStore[userKey(S1)] = NoId,
                                     !.selectedId = NoId,
                                     !.selected = Null]
              ELSE S1
      S3 == updateToolbar(saveAll(S2))
  IN [(IF S3.selected = Null THEN setProject(S3, Null) ELSE S3) EXCEPT !.ev.deleted = id]

\* `await Store.deleteProject(id)`: a guest's call resolves at once and deleteProject goes
\* on in the same task; a signed-in user's document is deleted and deleteProject waits
Store_deleteProject(S, id) ==
  IF S.user = NoUser THEN deleteDone(S, id)
  ELSE [S EXCEPT !.remote = SelectSeq(@, LAMBDA d : d.id # id),
                 !.snapDue = S.unsub,
                 !.tasks = Append(@, Task("delete", Null, id, 0))]

\* deleteProject(id), up to its first await; ok is the answer to confirm()
deleteProject(S, id, ok) ==
  LET p == FindById(S, S.projects, id)
  IN IF p = Null \/ ~ok THEN S
     ELSE IF Obj(S, p).imageRef # 0
       THEN [S EXCEPT !.tasks = Append(@, Task("imgDel", Null, id, Obj(S, p).imageRef))]
       ELSE Store_deleteProject(S, id)

----------------------------------------------------------------------------
(* Continuations *)

\* the inline async block of selectProject / Store.onAuthChanged after its probe
probeSelDone(S, t) ==
  setProject(IF S.selected = Null THEN S ELSE [S EXCEPT !.heap[S.selected].imageAspect = t.what],
             S.selected)

\* loadProjectImage, imageDataUrl branch, after its probe
probePDone(S, t) == setProject([S EXCEPT !.heap[t.ref].imageAspect = t.what], t.ref)

\* loadProjectImage, after ImageDB.getUrl resolves
getUrlDone(S, t) ==
  IF S.selected = Null \/ Obj(S, S.selected).id # t.id THEN S
  ELSE [S EXCEPT !.heap[t.ref].imageUrl = t.what,
                 !.tasks = Append(@, Task("probeUrl", t.ref, t.id, t.what))]

\* loadProjectImage, after the probe of the blob url
probeUrlDone(S, t) ==
  LET S1 == setProject([S EXCEPT !.heap[t.ref].imageAspect = t.what], t.ref)
      p == Obj(S1, t.ref)
  IN IF S1.user # NoUser /\ p.imageDataUrl = 0 /\ p.imageRef # 0
       THEN [S1 EXCEPT !.tasks = Append(@, Task("backfill", t.ref, t.id, p.imageRef))]
       ELSE S1

\* loadProjectImage, after the blob is compressed
backfillDone(S, t) == saveProject([S EXCEPT !.heap[t.ref].imageDataUrl = t.what], t.ref)

\* ensureBase64ForExisting, after its loop
ensureDone(S, t) ==
  LET need == {i \in 1 .. Len(t.list) : needsBase64(S, t.list[i])}
      fill == {t.list[i] : i \in need}
      S1 == [S EXCEPT !.heap = [r \in DOMAIN S.heap |->
                                  IF r \in fill
                                    THEN [S.heap[r] EXCEPT !.imageDataUrl = S.heap[r].imageRef]
                                    ELSE S.heap[r]]]
  IN IF need = {} THEN S ELSE saveAll(S1)

\* Store.save after batch.commit(), then the form's selectProject(id) if it awaited the save
saveDone(S, t) ==
  LET S1 == saveLocal(S, IF t.live THEN S.projects ELSE t.list)
  IN IF t.id = NoId THEN S1 ELSE selectProject(S1, t.id)

\* Store.migrateGuestToUser after batch.commit()
migrateSelDone(S, t) ==
  IF S.selStore[userKey(S)] = NoId /\ S.selStore[NoUser] # NoId
    THEN [S EXCEPT !.selStore[userKey(S)] = S.selStore[NoUser]]
    ELSE S

\* the login / logout handler after `await Auth.login()` / `await Auth.logout()`
authContinued(S, t) == reloadUserData([S EXCEPT !.user = t.what, !.authCur = t.what])

RunTask(S, t) ==
  CASE t.kind = "probeSel" -> probeSelDone(S, t)
    [] t.kind = "probeP" -> probePDone(S, t)
    [] t.kind = "getUrl" -> getUrlDone(S, t)
    [] t.kind = "probeUrl" -> probeUrlDone(S, t)
    [] t.kind = "backfill" -> backfillDone(S, t)
    [] t.kind = "ensure" -> ensureDone(S, t)
    [] t.kind = "save" -> saveDone(S, t)
    [] t.kind = "migrateSel" -> migrateSelDone(S, t)
    [] t.kind = "authCb" -> authStateChanged(S, t.what)
    [] t.kind = "authCont" -> authContinued(S, t)
    [] t.kind = "imgDel" -> Store_deleteProject(S, t.id)
    [] t.kind = "delete" -> deleteDone(S, t.id)

----------------------------------------------------------------------------
(* Session completion and grid migration *)

\* onTimerComplete's `need`; the session percentage is pct2 / 2 (half percents)
TargetPieces(p, pct2) ==
  LET progress == IF p.progress = NoProgress THEN 0 ELSE p.progress
      targetPct2 == clamp(2 * progress + clamp(pct2, 0, 200), 0, 200)
  IN Round(targetPct2 * Total(p), 200)

Need(p, pct2) == Max(0, TargetPieces(p, pct2) - Len(p.revealed))

\* onTimerComplete()
onTimerComplete(S, pct2) ==
  IF S.selected = Null THEN S
  ELSE LET p == Obj(S, S.selected)
           need == Need(p, pct2)
           R == reveal([S EXCEPT !.ev.need = need, !.ev.pct2 = pct2, !.ev.selBefore = p], need)
       IN [R EXCEPT !.ev.selAfter = Obj(R, R.selected)]

----------------------------------------------------------------------------
(* Timer *)

\* Timer.setMinutes(min), min a whole number
Timer_setMinutes(S, min) ==
  [S EXCEPT !.timer.seconds = Round(min * 60, 1), !.timer.left = Round(min * 60, 1)]

\* the minutes field as typed: a whole number, or nothing
EmptyInput == 0 - 1000

\* the change handler of minutesInput: clamp(parseInt(value || '25', 10), 1, 180)
minutesChanged(S, value) ==
  Timer_setMinutes(S, clamp(IF value = EmptyInput THEN 25 ELSE value, 1, 180))

\* setInterval: a handle no active interval has
NewHandle(S) ==
  CHOOSE h \in 1 .. Cardinality(S.timer.intervals) + 1 : h \notin S.timer.intervals

\* clearInterval(id)
clearInterval(S, id) == [S EXCEPT !.timer.intervals = @ \ {id}]

\* Timer.start()
Timer_startAgain(S) ==
  [S EXCEPT !.timer.running = TRUE, !.timer.id = NewHandle(S),
            !.timer.intervals = @ \cup {NewHandle(S)}]
Timer_start(S) ==
  IF S.timer.running THEN S
  ELSE [S EXCEPT !.timer.running = TRUE, !.timer.id = NewHandle(S),
                 !.timer.intervals = @ \cup {NewHandle(S)}]

\* Timer.stop()
Timer_stopKeepsInterval(S) == [S EXCEPT !.timer.id = Null, !.timer.running = FALSE]
Timer_stop(S) ==
  [clearInterval(S, S.timer.id) EXCEPT !.timer.id = Null, !.timer.running = FALSE]

\* Timer.pause()
Timer_pause(S) ==
  IF ~S.timer.running THEN S
  ELSE [clearInterval(S, S.timer.id) EXCEPT !.timer.id = Null, !.timer.running = FALSE]

\* Timer.reset()
Timer_reset(S) == Timer_stop([S EXCEPT !.timer.left = S.timer.seconds])

\* onTimerComplete() as the timer's handlers call it: atCall is the Timer at the call
timerCompletes(S, pct2) ==
  onTimerComplete([S EXCEPT !.ev.completed = TRUE, !.ev.atCall = S.timer], pct2)

\* the interval callback of Timer.start; delta is Math.floor((now - last) / 1000)
intervalTick(S, delta, pct2) ==
  IF delta >= 1
    THEN LET S1 == [S EXCEPT !.timer.left = @ - delta, !.ev.delta = delta]
         IN IF S1.timer.left <= 0
              THEN timerCompletes(Timer_stop([S1 EXCEPT !.timer.left = 0]), pct2)
              ELSE S1
    ELSE S

\* the completeBtn click: Timer.stop(); onTimerComplete()
completeClicked(S, pct2) == timerCompletes(Timer_stop(S), pct2)

\* one project of migrateToFixedGrid's loop
MigratedPct(p) ==
  LET total == Total(p)
      prevTotal == IF total > 0 THEN total ELSE 100
  IN IF p.progress # NoProgress THEN clamp(p.progress, 0, 100)
     ELSE RoundPct(Len(p.revealed), prevTotal)

\* `if (total === 100) continue;`
IsFixedGridNever(p) == FALSE
IsFixedGrid(p) == Total(p) = FixedTotal

migrateOne(S, ref) ==
  LET p == Obj(S, ref)
  IN IF IsFixedGrid(p) THEN S
     ELSE LET edges == makeEdges(FixedRows, FixedCols, S.seed, S.rk)
              k1 == S.rk + EdgeDraws(FixedRows, FixedCols)
              targetPieces == RoundPct(MigratedPct(p), 100)
              idxs == Shuffle([i \in 1 .. 100 |-> i - 1], S.seed, k1)
              revealed == Slice0(idxs, targetPieces)
          IN [S EXCEPT !.heap[ref] = [p EXCEPT !.rows = FixedRows, !.cols = FixedCols,
                                               !.hEdges = edges.h, !.vEdges = edges.v,
                                               !.revealed = revealed,
                                               !.progress = RoundPct(Len(revealed), 100)],
                       !.rk = k1 + ShuffleDraws(100),
                       !.ev.migrated = Append(@, p)]

\* migrateToFixedGrid()
migrateToFixedGrid(S) ==
  LET F[i \in 0 .. Len(S.projects)] ==
        IF i = 0 THEN S ELSE migrateOne(F[i - 1], S.projects[i])
      M == F[Len(S.projects)]
  IN IF M.ev.migrated # << >> THEN saveAll(M) ELSE M

----------------------------------------------------------------------------
(* Leaving a step: the objects nothing refers to any more are dropped and *)
(* the live ones are numbered in the order the program's references meet  *)
(* them, so that equal program states are equal states of the model.      *)

TaskRefs(ts) ==
  LET F[i \in 0 .. Len(ts)] ==
        IF i = 0 THEN << >> ELSE F[i - 1] \o <<ts[i].ref>> \o ts[i].list
  IN F[Len(ts)]

LiveRefs(S) ==
  SetOrder(SelectSeq(S.projects \o S.cache \o <<S.selected, S.puzzle>> \o TaskRefs(S.tasks),
                     LAMBDA r : r # Null))

Renumber(order, r) == IF r = Null THEN Null ELSE CHOOSE i \in 1 .. Len(order) : order[i] = r

Commit(S) ==
  LET order == LiveRefs(S)
      N(r) == Renumber(order, r)
  IN /\ Len(order) <= MaxObj
     /\ Len(S.tasks) <= MaxTasks
     /\ heap' = [i \in 1 .. Len(order) |-> S.heap[order[i]]]
     /\ projects' = [i \in 1 .. Len(S.projects) |-> N(S.projects[i])]
     /\ cache' = [i \in 1 .. Len(S.cache) |-> N(S.cache[i])]
     /\ selected' = N(S.selected)
     /\ puzzle' = N(S.puzzle)
     /\ tasks' = [i \in 1 .. Len(S.tasks) |->
                    [S.tasks[i] EXCEPT !.ref = N(@),
                                       !.list = [j \in 1 .. Len(@) |-> N(@[j])]]]
     /\ selectedId' = S.selectedId
     /\ user' = S.user
     /\ authCur' = S.authCur
     /\ unsub' = S.unsub
     /\ snapDue' = S.snapDue
     /\ localStore' = S.localStore
     /\ selStore' = S.selStore
     /\ remote' = S.remote
     /\ timer' = S.timer
     /\ ev' = S.ev
     /\ call' = S.call

----------------------------------------------------------------------------
(* The page: what the browser holds when it loads, the script's start, and  *)
(* the handlers.                                                            *)

Used0 ==
  [sessions |-> 0, auth |-> 0, new |-> 0, calls |-> 0, events |-> 0, loads |-> 0,
   deleted |-> {}]

\* session percentages of the input field, in half percents
SessionPct2 == {1, 20, 250}

\* A project on the fixed grid with image 1; a project without image, not started
\* and 30 % done; a legacy project on a 2x3 grid, with or without its edges.
PA == Project(1, FixedRows, FixedCols, << >>, 0, makeEdges(FixedRows, FixedCols, 0, 0), 1)
PC == [PA EXCEPT !.imageRef = 0]
PC30 == [PC EXCEPT !.revealed = [i \in 1 .. 30 |-> i - 1], !.progress = 30]
PB(edged) ==
  Project(2, 2, 3, <<4>>, 17,
          IF edged THEN makeEdges(2, 3, 0, 0) ELSE [h |-> NoEdges, v |-> NoEdges], 0)
\* a legacy 5x8 project of the user: 19 of 40 cells, progress round(47.5) = 48
PL == Project(2, 5, 8, [i \in 1 .. 19 |-> i - 1], 48, makeEdges(5, 8, 0, 0), 0)
PN == [PC EXCEPT !.hEdges = NoEdges, !.vEdges = NoEdges]
NewId == 3

\* localStorage, the user's collection and the persisted session of the browser:
\* a guest with two projects; a signed-in user whose first project was made as a guest
\* (the guest's copy stays in localStorage); a signed-in user whose project was made
\* as a guest before projects had edges, never selected as a guest, and given its edges
\* by a render after signing in; a first visit.
Browsers ==
  {[guest |-> <<PA, PB(FALSE)>>, guestSel |-> sel, mine |-> << >>, mineSel |-> NoId,
    docs |-> << >>, session |-> NoUser] : sel \in {1, 2}}
  \cup
  {[guest |-> <<PC>>, guestSel |-> 1, mine |-> <<PC30, PL>>, mineSel |-> 1,
    docs |-> <<ToRemoteDoc(PC30), ToRemoteDoc(PL)>>, session |-> Uid],
   [guest |-> <<PN>>, guestSel |-> NoId, mine |-> <<PC>>, mineSel |-> 1,
    docs |-> <<ToRemoteDoc(PC)>>, session |-> Uid],
   [guest |-> << >>, guestSel |-> NoId, mine |-> << >>, mineSel |-> NoId,
    docs |-> << >>, session |-> NoUser]}

\* Auth.init(); let projects = Store.load(); let selectedId = ...; let selected = ...
InitFrom(b) ==
    /\ pc = "init"
    /\ heap = b.guest
    /\ projects = [i \in 1 .. Len(b.guest) |-> i]
    /\ selectedId = b.guestSel
    /\ selected = IF \E i \in 1 .. Len(b.guest) : b.guest[i].id = b.guestSel
                    THEN CHOOSE i \in 1 .. Len(b.guest) : b.guest[i].id = b.guestSel
                    ELSE Null
    /\ puzzle = Null
    /\ cache = << >>
    /\ user = NoUser
    /\ authCur = NoUser
    /\ unsub = FALSE
    /\ snapDue = FALSE
    /\ localStore = [k \in {NoUser, Uid} |-> IF k = NoUser THEN b.guest ELSE b.mine]
    /\ selStore = [k \in {NoUser, Uid} |-> IF k = NoUser THEN b.guestSel ELSE b.mineSel]
    /\ remote = b.docs
    /\ tasks = <<Task("authCb", Null, NoId, b.session)>>
    /\ used = Used0
    /\ timer = Timer0
    /\ ev = EvNone
    /\ call = NoCall

Init == \E b \in Browsers : InitFrom(b)

\* `// Init`: if (selected) selectProject(selected.id); else updateToolbar();
StartInit(s) ==
  /\ pc = "init"
  /\ \E S \in {IF selected # Null THEN selectProject(Cur(s), heap[selected].id)
               ELSE updateToolbar(Cur(s))} :
       Commit([S EXCEPT !.ev.op = "start"])
  /\ pc' = "migrate"
  /\ UNCHANGED used

\* (function migrateToFixedGrid() {...})(), later in the same script
MigrateGrid(s) ==
  /\ pc = "migrate"
  /\ \E S \in {migrateToFixedGrid(Cur(s))} : Commit([S EXCEPT !.ev.op = "migrateGrid"])
  /\ pc' = "run"
  /\ UNCHANGED used

\* the timer reaching zero, or the complete button
TimerComplete(pct2, s) ==
  /\ pc = "run"
  /\ used.sessions < MaxSessions
  /\ used.events < MaxEvents
  /\ \E S \in {onTimerComplete(Cur(s), pct2)} : Commit([S EXCEPT !.ev.op = "session"])
  /\ used' = [used EXCEPT !.sessions = @ + 1, !.events = @ + 1]
  /\ UNCHANGED pc

\* a click on the i-th project of the sidebar
SelectProject(i, s) ==
  /\ pc = "run"
  /\ i \in 1 .. Len(projects)
  /\ heap[projects[i]].id # selectedId
  /\ \E S \in {selectProject(Cur(s), heap[projects[i]].id)} :
       Commit([S EXCEPT !.ev.op = "select"])
  /\ used.events < MaxEvents
  /\ used' = [used EXCEPT !.events = @ + 1]
  /\ UNCHANGED pc

\* window resize: Puzzle.layout()
Resize(s) ==
  /\ pc = "run"
  /\ puzzle # Null
  /\ ev.op # "render"
  /\ used.events < MaxEvents
  /\ \E S \in {render(Cur(s))} : Commit([S EXCEPT !.ev.op = "render"])
  /\ used' = [used EXCEPT !.events = @ + 1]
  /\ UNCHANGED pc

\* the new-project form, from `projects.push(proj)` on
SubmitForm(withImage, s) ==
  /\ pc = "run"
  /\ used.new < MaxNew
  /\ used.events < MaxEvents
  /\ LET img == IF withImage THEN NewId ELSE 0
         proj == [Project(NewId, FixedRows, FixedCols, << >>, 0,
                          makeEdges(FixedRows, FixedCols, s, 0), img)
                    EXCEPT !.imageDataUrl = img]
         S0 == AllocAll(Cur(s), <<proj>>)
         S1 == [S0 EXCEPT !.projects = Append(@, Len(S0.heap)),
                          !.rk = EdgeDraws(FixedRows, FixedCols)]
     IN \E S \in {IF user = NoUser THEN selectProject(Store_save(S1, NoId), NewId)
                  ELSE Store_save(S1, NewId)} :
          Commit([S EXCEPT !.ev.op = "submit"])
  /\ used' = [used EXCEPT !.new = @ + 1, !.events = @ + 1]
  /\ UNCHANGED pc

\* the auth form and the logout button, up to `await Auth.login(...)` / `await Auth.logout()`:
\* the state callback and the handler's continuation both become due
SignIn(u) ==
  /\ pc = "run"
  /\ used.auth < MaxAuth
  /\ used.events < MaxEvents
  /\ user # u /\ authCur = user
  /\ \A i \in 1 .. Len(tasks) : tasks[i].kind \notin {"authCb", "authCont"}
  /\ \E S \in {[Cur(0) EXCEPT !.tasks = @ \o <<Task("authCb", Null, NoId, u),
                                                Task("authCont", Null, NoId, u)>>]} :
       Commit([S EXCEPT !.ev.op = IF u = NoUser THEN "logout" ELSE "login"])
  /\ used' = [used EXCEPT !.auth = @ + 1, !.events = @ + 1]
  /\ UNCHANGED pc

\* a pending continuation runs
Continue(i, s) ==
  /\ pc = "run"
  /\ i \in 1 .. Len(tasks)
  /\ LET t == tasks[i]
         rest == SubSeq(tasks, 1, i - 1) \o SubSeq(tasks, i + 1, Len(tasks))
     IN \E S \in {RunTask([Cur(s) EXCEPT !.tasks = rest], t)} :
          Commit([S EXCEPT !.ev.op = t.kind])
  /\ UNCHANGED <<pc, used>>

\* the snapshot listener fires
Snapshot(s) ==
  /\ pc = "run"
  /\ unsub /\ snapDue /\ user # NoUser
  /\ \E S \in {onSnapshot(Cur(s))} : Commit([S EXCEPT !.ev.op = "snapshot"])
  /\ UNCHANGED <<pc, used>>

Next ==
  \/ \E s \in Seeds : StartInit(s)
  \/ \E s \in Seeds : MigrateGrid(s)
  \/ \E pct2 \in SessionPct2 : \E s \in Seeds : TimerComplete(pct2, s)
  \/ \E i \in 1 .. MaxObj : \E s \in Seeds : SelectProject(i, s)
  \/ \E s \in Seeds : Resize(s)
  \/ \E withImage \in BOOLEAN : \E s \in Seeds : SubmitForm(withImage, s)
  \/ \E u \in {NoUser, Uid} : SignIn(u)
  \/ \E i \in 1 .. MaxTasks : \E s \in Seeds : Continue(i, s)
  \/ \E s \in Seeds : Snapshot(s)

Spec == Init /\ [][Next]_vars

----------------------------------------------------------------------------
(* Grid migration over legacy projects: a guest whose stored list holds a   *)
(* project of an earlier version, the start of the page, and a reload.      *)

LegacyGrids == {<<2, 3>>, <<5, 5>>, <<5, 8>>, <<4, 25>>}
LegacyCounts == {0, 1, 10, 23}

\* a stored project of an earlier version: n cells revealed, progress absent, as
\* reveal wrote it, or out of range
LegacyProjects ==
  {Project(2, g[1], g[2], [i \in 1 .. n |-> i - 1], pr, makeEdges(g[1], g[2], 0, 0), 0) :
     <<g, n, pr>> \in {x \in LegacyGrids \X LegacyCounts \X {NoProgress, 0, 150} :
                         x[2] <= x[1][1] * x[1][2]}}
  \cup
  {Project(2, g[1], g[2], [i \in 1 .. n |-> i - 1], RoundPct(n, g[1] * g[2]),
           makeEdges(g[1], g[2], 0, 0), 0) :
     <<g, n>> \in {x \in LegacyGrids \X LegacyCounts : x[2] <= x[1][1] * x[1][2]}}

InitMigrate ==
  \E legacy \in LegacyProjects :
    InitFrom([guest |-> <<PA, legacy>>, guestSel |-> 2, mine |-> << >>, mineSel |-> NoId,
              docs |-> << >>, session |-> NoUser])

\* the page is loaded again: Auth.init(); let projects = Store.load(); ...
LoadPage(S) ==
  LET S0 == [S EXCEPT !.cache = << >>, !.authCur = NoUser, !.user = NoUser,
                      !.unsub = FALSE, !.snapDue = FALSE, !.puzzle = Null,
                      !.tasks = <<Task("authCb", Null, NoId, S.user)>>]
      L == loadLocal(S0)
      id == storedSelectedId(L)
  IN [L EXCEPT !.projects = L.ret, !.selectedId = id, !.selected = FindById(L, L.ret, id)]

Reload ==
  /\ pc = "run"
  /\ used.loads < MaxLoads
  /\ \E S \in {LoadPage(Cur(0))} : Commit([S EXCEPT !.ev.op = "load"])
  /\ pc' = "init"
  /\ used' = [used EXCEPT !.loads = @ + 1]

NextMigrate ==
  \/ \E s \in Seeds : StartInit(s)
  \/ \E s \in Seeds : MigrateGrid(s)
  \/ Reload

SpecMigrate == InitMigrate /\ [][NextMigrate]_vars

----------------------------------------------------------------------------
(* Puzzle.reveal as an operation of its own: a project of any grid, any    *)
(* revealed set, shown by the puzzle of a guest, and direct calls of       *)
(* reveal(count).                                                          *)

ApiGrids == {<<2, 2>>, <<2, 3>>, <<FixedRows, FixedCols>>}
ApiStarts == {0, 30, 45, 97, 100}
ApiCounts == {0 - 1, 0, 1, 3, 30, 100, 101}

\* the set cells as an ascending array
Ascending(cells, total) == SelectSeq([i \in 1 .. total |-> i - 1], LAMBDA x : x \in cells)

ApiRevealedSets(total) ==
  IF total <= 6 THEN SUBSET (0 .. total - 1) ELSE {0 .. k - 1 : k \in ApiStarts}

\* account u (the guest when NoUser) whose only project is p, selected, and shown by
\* the puzzle or not
AloneTimed(u, p, shown, t) ==
  /\ pc = "api"
  /\ heap = <<p>>
  /\ projects = <<1>>
  /\ selectedId = 1
  /\ selected = 1
  /\ puzzle = IF shown THEN 1 ELSE Null
  /\ cache = IF u = NoUser THEN << >> ELSE <<1>>
  /\ user = u
  /\ authCur = u
  /\ unsub = (u # NoUser)
  /\ snapDue = FALSE
  /\ localStore = [k \in {NoUser, Uid} |-> IF k = u THEN <<Slim(p)>> ELSE << >>]
  /\ selStore = [k \in {NoUser, Uid} |-> IF k = u THEN 1 ELSE NoId]
  /\ remote = IF u = NoUser THEN << >> ELSE <<ToRemoteDoc(p)>>
  /\ tasks = << >>
  /\ used = Used0
  /\ timer = t
  /\ ev = EvNone
  /\ call = NoCall

AloneAs(u, p, shown) == AloneTimed(u, p, shown, Timer0)

Alone(p, shown) == AloneAs(NoUser, p, shown)

InitReveal ==
  \E g \in ApiGrids : \E cells \in ApiRevealedSets(g[1] * g[2]) : \E shown \in BOOLEAN :
    LET total == g[1] * g[2]
    IN Alone(Project(1, g[1], g[2], Ascending(cells, total),
                     RoundPct(Cardinality(cells), total), makeEdges(g[1], g[2], 0, 0), 0),
             shown)

\* els.puzzle.reveal(count)
ApiReveal(count, s) ==
  /\ pc = "api"
  /\ used.calls < MaxCalls
  /\ Commit([reveal(Cur(s), count) EXCEPT !.ev.op = "reveal"])
  /\ used' = [used EXCEPT !.calls = @ + 1]
  /\ UNCHANGED pc

\* onTimerComplete() on that project
ApiSession(pct2, s) ==
  /\ pc = "api"
  /\ used.calls < MaxCalls
  /\ \E S \in {onTimerComplete(Cur(s), pct2)} : Commit([S EXCEPT !.ev.op = "session"])
  /\ used' = [used EXCEPT !.calls = @ + 1]
  /\ UNCHANGED pc

NextReveal ==
  \/ \E count \in ApiCounts : \E s \in Seeds : ApiReveal(count, s)
  \/ \E pct2 \in SessionPct2 : \E s \in Seeds : ApiSession(pct2, s)

SpecReveal == InitReveal /\ [][NextReveal]_vars

----------------------------------------------------------------------------
(* Failing storage: session completions of a guest or a signed-in user     *)
(* whose save fails or not, and the saves that settle.                     *)

SaveGrids == {<<2, 3>>, <<FixedRows, FixedCols>>}
SaveStarts == {0, 3, 45, 99}

InitSave ==
  \E g \in SaveGrids : \E n \in SaveStarts : \E u \in {NoUser, Uid} :
    /\ n <= g[1] * g[2]
    /\ AloneAs(u, Project(1, g[1], g[2], [i \in 1 .. n |-> i - 1], RoundPct(n, g[1] * g[2]),
                          makeEdges(g[1], g[2], 0, 0), 0),
               TRUE)

\* onTimerComplete() while the storage fails or works
SessionSave(pct2, fails, s) ==
  /\ pc = "api"
  /\ used.calls < MaxCalls
  /\ \E S \in {onTimerComplete([Cur(s) EXCEPT !.saveFails = fails], pct2)} :
       Commit([S EXCEPT !.ev.op = "session"])
  /\ used' = [used EXCEPT !.calls = @ + 1]
  /\ UNCHANGED pc

\* a pending Store.save resumes after its commit
SaveSettles(i, s) ==
  /\ pc = "api"
  /\ i \in 1 .. Len(tasks)
  /\ LET t == tasks[i]
         rest == SubSeq(tasks, 1, i - 1) \o SubSeq(tasks, i + 1, Len(tasks))
     IN \E S \in {RunTask([Cur(s) EXCEPT !.tasks = rest], t)} :
          Commit([S EXCEPT !.ev.op = t.kind])
  /\ UNCHANGED <<pc, used>>

NextSave ==
  \/ \E pct2 \in SessionPct2 : \E fails \in BOOLEAN : \E s \in Seeds : SessionSave(pct2, fails, s)
  \/ \E i \in 1 .. MaxTasks : \E s \in Seeds : SaveSettles(i, s)

SpecSave == InitSave /\ [][NextSave]_vars

----------------------------------------------------------------------------
(* Repair on render: a project stored with both edge arrays, with one of    *)
(* them, or with none, shown to a guest or a signed-in user, and laid out.  *)

RepairGrids == {<<2, 2>>, <<2, 3>>, <<3, 2>>, <<FixedRows, FixedCols>>}
EdgeFields == {"both", "h", "v", "none"}

\* the edges a stored project has: made by makeEdges, one or both arrays absent
StoredEdges(rows, cols, s, k0, has) ==
  LET e == makeEdges(rows, cols, s, k0)
  IN [h |-> IF has \in {"both", "h"} THEN e.h ELSE NoEdges,
      v |-> IF has \in {"both", "v"} THEN e.v ELSE NoEdges]

InitRepair ==
  \E g \in RepairGrids : \E has \in EdgeFields : \E s \in Seeds : \E u \in {NoUser, Uid} :
    AloneAs(u, Project(1, g[1], g[2], << >>, 0, StoredEdges(g[1], g[2], s, 1, has), 0), TRUE)

\* Puzzle.layout() on the project shown
LayoutRepair(s) ==
  /\ pc = "api"
  /\ puzzle # Null
  /\ used.calls < MaxCalls
  /\ \E S \in {render(Cur(s))} : Commit([S EXCEPT !.ev.op = "render"])
  /\ used' = [used EXCEPT !.calls = @ + 1]
  /\ UNCHANGED pc

NextRepair ==
  \/ \E s \in Seeds : LayoutRepair(s)
  \/ \E i \in 1 .. MaxTasks : \E s \in Seeds : SaveSettles(i, s)

SpecRepair == InitRepair /\ [][NextRepair]_vars

----------------------------------------------------------------------------
(* Deleting projects: a guest with two projects, a signed-in user with one *)
(* project or two, the delete button, the continuations, the snapshot     *)
(* listener and a reload of the page.                                     *)

DeleteBrowsers ==
  {[guest |-> <<PA, PB(TRUE)>>, guestSel |-> sel, mine |-> << >>, mineSel |-> NoId,
    docs |-> << >>, session |-> NoUser] : sel \in {1, 2}}
  \cup
  {[guest |-> << >>, guestSel |-> NoId, mine |-> <<PC>>, mineSel |-> 1,
    docs |-> <<ToRemoteDoc(PC)>>, session |-> Uid]}
  \cup
  {[guest |-> << >>, guestSel |-> NoId, mine |-> <<PC30, PL>>, mineSel |-> sel,
    docs |-> <<ToRemoteDoc(PC30), ToRemoteDoc(PL)>>, session |-> Uid] : sel \in {1, 2}}

InitDelete == \E b \in DeleteBrowsers : InitFrom(b)

\* the ids of the deletions that have completed
Deleted(S) == used.deleted \cup (IF S.ev.deleted # NoId THEN {S.ev.deleted} ELSE {})

\* els.deleteBtn click: if (selected) deleteProject(selected.id)
DeleteClick(ok, s) ==
  /\ pc = "run"
  /\ selected # Null
  /\ \E S \in {deleteProject(Cur(s), heap[selected].id, ok)} :
       /\ Commit([S EXCEPT !.ev.op = "deleteClick"])
       /\ used' = [used EXCEPT !.deleted = Deleted(S)]
  /\ UNCHANGED pc

\* a pending continuation runs
DeleteContinue(i, s) ==
  /\ pc \in {"init", "migrate", "run"}
  /\ i \in 1 .. Len(tasks)
  /\ LET t == tasks[i]
         rest == SubSeq(tasks, 1, i - 1) \o SubSeq(tasks, i + 1, Len(tasks))
     IN \E S \in {RunTask([Cur(s) EXCEPT !.tasks = rest], t)} :
          /\ Commit([S EXCEPT !.ev.op = t.kind])
          /\ used' = [used EXCEPT !.deleted = Deleted(S)]
  /\ UNCHANGED pc

NextDelete ==
  \/ \E s \in Seeds : StartInit(s)
  \/ \E s \in Seeds : MigrateGrid(s)
  \/ \E ok \in BOOLEAN : \E s \in Seeds : DeleteClick(ok, s)
  \/ \E i \in 1 .. MaxTasks : \E s \in Seeds : DeleteContinue(i, s)
  \/ \E s \in Seeds : Snapshot(s)
  \/ Reload

SpecDelete == InitDelete /\ [][NextDelete]_vars

----------------------------------------------------------------------------
(* Repeated sessions: a guest whose only project is on the fixed grid, with *)
(* or without an image, the start of the page, and session completions     *)
(* without end. The event loop runs every pending continuation, and the    *)
(* timer (or the complete button) keeps completing sessions.               *)

\* whole session percentages of the input field, in half percents: 25 % and 125 %
WholePct2 == {50, 250}

InitSessions ==
  \E p \in {PA, PC} :
    InitFrom([guest |-> <<p>>, guestSel |-> 1, mine |-> << >>, mineSel |-> NoId,
              docs |-> << >>, session |-> NoUser])

\* onTimerComplete(), any number of times
SessionDone(pct2, s) ==
  /\ pc = "run"
  /\ \E S \in {onTimerComplete(Cur(s), pct2)} : Commit([S EXCEPT !.ev.op = "session"])
  /\ UNCHANGED <<pc, used>>

Sessions == \E pct2 \in WholePct2 : \E s \in Seeds : SessionDone(pct2, s)
PageStart == (\E s \in Seeds : StartInit(s)) \/ (\E s \in Seeds : MigrateGrid(s))
Continuations == \E i \in 1 .. MaxTasks : \E s \in Seeds : DeleteContinue(i, s)

NextSessions ==
  \/ PageStart
  \/ Continuations
  \/ Sessions

\* Weak fairness of Continuations and of Sessions with ENABLED written out: a
\* continuation can run when one is pending, a session can complete once the page has
\* started, and ev.op tells which handler made a step.
FairContinuations ==
  []<>(tasks = << >>) \/ []<><<ev'.op \notin {"none", "start", "migrateGrid", "session"}>>_vars
FairSessions == []<>(pc # "run") \/ []<><<ev'.op = "session">>_vars

SpecSessions ==
  /\ InitSessions
  /\ [][NextSessions]_vars
  /\ WF_vars(PageStart)
  /\ FairContinuations
  /\ FairSessions

----------------------------------------------------------------------------
(* The timer: a guest with one 2x2 project, the minutes field, the four     *)
(* buttons and the interval's callback.                                     *)

\* what is typed into the minutes field
MinutesTyped == {0 - 3, 1, 2, 500, EmptyInput}
\* whole seconds between two runs of the interval's callback: none, a minute, two
\* minutes, more than the longest countdown
TickDeltas == {0, 60, 120, 20000}

\* the page after `Timer.setMinutes(parseInt(els.minutesInput.value,10) || 25)`
InitTimer ==
  AloneTimed(NoUser, Project(1, 2, 2, << >>, 0, makeEdges(2, 2, 0, 0), 0), TRUE, Timer0)

TimerStep(S, op) ==
  /\ pc = "api"
  /\ Commit([S EXCEPT !.ev.op = op])
  /\ UNCHANGED <<pc, used>>

MinutesChange(value) == \E S \in {minutesChanged(Cur(0), value)} : TimerStep(S, "minutes")
StartClick == \E S \in {Timer_start(Cur(0))} : TimerStep(S, "startClick")
PauseClick == \E S \in {Timer_pause(Cur(0))} : TimerStep(S, "pauseClick")
ResetClick == \E S \in {Timer_reset(Cur(0))} : TimerStep(S, "resetClick")
CompleteClick(pct2, s) == \E S \in {completeClicked(Cur(s), pct2)} : TimerStep(S, "completeClick")

\* an active interval of the window runs its callback
Tick(h, delta, pct2, s) ==
  /\ h \in timer.intervals
  /\ \E S \in {intervalTick(Cur(s), delta, pct2)} : TimerStep(S, "tick")

NextTimer ==
  \/ \E value \in MinutesTyped : MinutesChange(value)
  \/ StartClick
  \/ PauseClick
  \/ ResetClick
  \/ \E pct2 \in SessionPct2 : \E s \in Seeds : CompleteClick(pct2, s)
  \/ \E h \in 1 .. 2 : \E delta \in TickDeltas : \E pct2 \in SessionPct2 : \E s \in Seeds :
       Tick(h, delta, pct2, s)

SpecTimer == InitTimer /\ [][NextTimer]_vars

----------------------------------------------------------------------------
(* The remote encoding: Store._toRemoteDoc of a project and                 *)
(* Store._fromRemoteDoc of the document.                                    *)

CodecGrids == {<<2, 2>>, <<2, 3>>, <<3, 2>>, <<FixedRows, FixedCols>>}
\* revealed and progress of a stored project; progress may be absent
CodecProgress == {<< << >>, 0>>, << << >>, NoProgress>>, << <<2, 0>>, 50>>, << <<1>>, 17>>}

InitCodec ==
  \E g \in CodecGrids : \E has \in EdgeFields : \E s \in Seeds : \E rp \in CodecProgress :
    \E img \in {0, 1} :
      AloneAs(Uid,
              [Project(1, g[1], g[2], rp[1], rp[2], StoredEdges(g[1], g[2], s, 2, has), img)
                 EXCEPT !.imageDataUrl = img, !.imageUrl = img],
              TRUE)

\* the document Store.save writes for the project and the object the snapshot
\* listener makes of it
RemoteRoundTrip ==
  /\ pc = "api"
  /\ call.fn = "none"
  /\ LET p == heap[1]
         doc == ToRemoteDoc(p)
     IN Commit([Cur(0) EXCEPT
          !.call = [fn |-> "remoteDoc", p |-> p, doc |-> doc,
                    back |-> FromRemoteDoc(p.id, doc)]])
  /\ UNCHANGED <<pc, used>>

NextCodec == RemoteRoundTrip

SpecCodec == InitCodec /\ [][NextCodec]_vars

----------------------------------------------------------------------------
(* Edges and piece signs: makeEdges called for a grid, Puzzle.render on the *)
(* project shown, and the preview of the new-project dialog.                *)

EdgeGrids == {<<2, 2>>, <<2, 3>>, <<3, 2>>, <<3, 3>>, <<FixedRows, FixedCols>>}
CallGrids == (2 .. 4) \X (2 .. 4)
FirstDraws == 0 .. 4

InitEdges ==
  \E g \in EdgeGrids : \E s \in Seeds : \E k0 \in FirstDraws :
    Alone(Project(1, g[1], g[2], << >>, 0, makeEdges(g[1], g[2], s, k0), 0), TRUE)

\* makeEdges(rows, cols), the draws it consumes being draws k0, k0+1, ... of source s
EdgesCall(rows, cols, s, k0) ==
  /\ pc = "api"
  /\ Commit([Cur(s) EXCEPT
       !.call = [fn |-> "makeEdges", rows |-> rows, cols |-> cols,
                 draws |-> [k \in 1 .. EdgeDraws(rows, cols) |-> Draw(s, k0 + k - 1)],
                 edges |-> makeEdges(rows, cols, s, k0), signs |-> << >>]])
  /\ UNCHANGED <<pc, used>>

\* Puzzle.layout() on the project shown
RenderCall(s) ==
  /\ pc = "api"
  /\ puzzle # Null
  /\ \E S \in {render(Cur(s))} :
       LET p == Obj(S, S.puzzle)
       IN Commit([S EXCEPT
            !.ev.op = "render",
            !.call = [fn |-> "render", rows |-> p.rows, cols |-> p.cols, draws |-> << >>,
                      edges |-> [h |-> p.hEdges, v |-> p.vEdges],
                      signs |-> AllPieceSigns(p.hEdges, p.vEdges, p.rows, p.cols)]])
  /\ UNCHANGED <<pc, used>>

\* renderPreviewPuzzle()
PreviewCall(s, k0) ==
  /\ pc = "api"
  /\ LET edges == makeEdges(FixedRows, FixedCols, s, k0)
     IN Commit([Cur(s) EXCEPT
          !.call = [fn |-> "preview", rows |-> FixedRows, cols |-> FixedCols,
                    draws |-> << >>, edges |-> edges,
                    signs |-> AllPieceSigns(edges.h, edges.v, FixedRows, FixedCols)]])
  /\ UNCHANGED <<pc, used>>

NextEdges ==
  \/ \E g \in CallGrids : \E s \in Seeds : \E k0 \in FirstDraws : EdgesCall(g[1], g[2], s, k0)
  \/ \E s \in Seeds : RenderCall(s)
  \/ \E s \in Seeds : \E k0 \in FirstDraws : PreviewCall(s, k0)

SpecEdges == InitEdges /\ [][NextEdges]_vars

----------------------------------------------------------------------------
(* Piece outlines: piecePath called with a size and four signs *)

PathSizes == {1, 7, 40}
EdgeSigns == {0, 1, 0 - 1}

InitPath == Alone(Project(1, FixedRows, FixedCols, << >>, 0, makeEdges(FixedRows, FixedCols, 0, 0), 0), TRUE)

PathCall(w, h, t, r, b, l) ==
  /\ pc = "api"
  /\ Commit([Cur(0) EXCEPT
       !.call = [fn |-> "piecePath", w |-> w, h |-> h,
                 signs |-> [top |-> t, right |-> r, bottom |-> b, left |-> l],
                 cmds |-> piecePath(w, h, t, r, b, l)]])
  /\ UNCHANGED <<pc, used>>

NextPath ==
  \E w \in PathSizes : \E h \in PathSizes :
    \E t \in EdgeSigns : \E r \in EdgeSigns : \E b \in EdgeSigns : \E l \in EdgeSigns :
      PathCall(w, h, t, r, b, l)

SpecPath == InitPath /\ [][NextPath]_vars

----------------------------------------------------------------------------
(* Layout: Puzzle.render of the project shown, in a container of a given size *)

ContainerWidths == {0, 100, 224, 225, 300, 1000}
ContainerHeights == {0, 100, 224, 225, 500, 800}
Aspects == {<<16, 10>>, <<2, 1>>, <<1, 1>>, <<1, 2>>, <<4, 3>>}

InitLayout == Alone(Project(1, FixedRows, FixedCols, << >>, 0, makeEdges(FixedRows, FixedCols, 0, 0), 0), TRUE)

LayoutCall(width, height, a, s) ==
  /\ pc = "api"
  /\ puzzle # Null
  /\ \E S \in {render(Cur(s))} :
       Commit([S EXCEPT
         !.ev.op = "render",
         !.call = [fn |-> "layout", width |-> width, height |-> height, aspect |-> a,
                   stage |-> StageSize(width, height, a[1], a[2])]])
  /\ UNCHANGED <<pc, used>>

NextLayout ==
  \E width \in ContainerWidths : \E height \in ContainerHeights : \E a \in Aspects :
    \E s \in Seeds : LayoutCall(width, height, a, s)

SpecLayout == InitLayout /\ [][NextLayout]_vars

----------------------------------------------------------------------------
(* Properties of Puzzle.reveal *)

CellSet(p) == Range(p.revealed)
RevealRan == ev.rvCalled /\ ev.rvBefore # NoObj

\* C1: reveal never picks a cell that is already revealed, nor an index outside
\* 0 .. rows*cols-1, whatever the revealed set and the requested count.
C1_PicksOnlyHiddenCells ==
  RevealRan =>
    \A i \in 1 .. Len(ev.rvPick) :
      /\ ev.rvPick[i] \notin CellSet(ev.rvBefore)
      /\ ev.rvPick[i] >= 0
      /\ ev.rvPick[i] < Total(ev.rvBefore)

C1_Witness ==
  /\ RevealRan
  /\ Len(ev.rvPick) >= 2
  /\ CellSet(ev.rvBefore) # {}
  /\ Total(ev.rvBefore) = FixedTotal

\* C2: for a count >= 0, reveal returns min(count, number of hidden cells) and the
\* revealed set grows by exactly that many cells; an empty 10x10 project asked for 30
\* returns 30 and has 30 revealed cells and progress 30.
C2_ReturnsClampedCount ==
  (RevealRan /\ ev.rvCount >= 0) =>
    LET hiddenBefore == Total(ev.rvBefore) - Cardinality(CellSet(ev.rvBefore))
    IN /\ ev.rvRet = Min(ev.rvCount, hiddenBefore)
       /\ Cardinality(CellSet(ev.rvAfter)) = Cardinality(CellSet(ev.rvBefore)) + ev.rvRet
       /\ Len(ev.rvAfter.revealed) = Len(ev.rvBefore.revealed) + ev.rvRet
       /\ (Total(ev.rvBefore) = 100 /\ ev.rvBefore.revealed = << >> /\ ev.rvCount = 30) =>
            (ev.rvRet = 30 /\ Len(ev.rvAfter.revealed) = 30 /\ ev.rvAfter.progress = 30)

C2_Witness ==
  /\ RevealRan
  /\ Total(ev.rvBefore) = 100
  /\ ev.rvBefore.revealed = << >>
  /\ ev.rvCount = 30
  /\ ev.rvRet = 30

C7_LargeCountRevealsAll ==
  (RevealRan /\ ev.rvCount >= Total(ev.rvBefore) - Cardinality(CellSet(ev.rvBefore))) =>
    /\ CellSet(ev.rvAfter) = 0 .. Total(ev.rvBefore) - 1
    /\ Len(ev.rvAfter.revealed) = Total(ev.rvBefore)
    /\ ev.rvAfter.progress = 100

C7_Witness ==
  /\ RevealRan
  /\ ev.rvCount > Total(ev.rvBefore) - Cardinality(CellSet(ev.rvBefore))
  /\ Cardinality(CellSet(ev.rvBefore)) < Total(ev.rvBefore)
  /\ Cardinality(CellSet(ev.rvBefore)) > 0
  /\ ev.rvAfter.progress = 100

----------------------------------------------------------------------------
(* Properties of the page *)

\* the project objects the program holds
Objects == {heap[r] : r \in DOMAIN heap}

\* q = round(100 * n / total), halves upward
IsRoundedPercent(q, n, total) ==
  /\ 2 * q * total <= 200 * n + total
  /\ 200 * n + total < 2 * (q + 1) * total

\* C3: in every reachable state each project's progress is an integer in 0..100
\* equal to round(100 * |revealed| / (rows * cols)).
C3_ProgressIsDerived ==
  \A p \in Objects :
    /\ p.progress \in 0 .. 100
    /\ IsRoundedPercent(p.progress, Len(p.revealed), Total(p))

\* C4: in every reachable state each project's revealed array holds only indices
\* 0 <= i < rows * cols, and none twice.
C4_RevealedInRangeNoDuplicates ==
  \A p \in Objects :
    /\ \A i \in 1 .. Len(p.revealed) : p.revealed[i] >= 0 /\ p.revealed[i] < Total(p)
    /\ \A i, j \in 1 .. Len(p.revealed) : p.revealed[i] = p.revealed[j] => i = j

C4_Witness ==
  /\ ev.op = "session"
  /\ ev.rvBefore # NoObj
  /\ ev.rvBefore.revealed # << >>
  /\ Len(ev.rvPick) >= 2
  /\ used.sessions = MaxSessions

\* C5: over a step of a session completion, a render, a save or a sync snapshot, every
\* revealed cell of every project of the list stays revealed (the project taken by id).
C5_RevealedNeverShrinks ==
  [][ev'.op \in {"session", "render", "save", "snapshot"} =>
       \A i \in DOMAIN projects : \A j \in DOMAIN projects' :
         heap[projects[i]].id = heap'[projects'[j]].id =>
           CellSet(heap[projects[i]]) \subseteq CellSet(heap'[projects'[j]])]_vars

\* the target piece count of a session of pct2 half percents on project p:
\* round(clamp(progress + sessionPct, 0, 100) * total / 100)
SessionTarget(p, pct2) ==
  LET progress2 == 2 * (IF p.progress = NoProgress THEN 0 ELSE p.progress)
      sum2 == progress2 + (IF pct2 < 0 THEN 0 ELSE IF pct2 > 200 THEN 200 ELSE pct2)
      targetPct2 == IF sum2 > 200 THEN 200 ELSE sum2
  IN CHOOSE t \in 0 .. Total(p) :
       /\ 200 * t <= targetPct2 * Total(p) + 100
       /\ targetPct2 * Total(p) + 100 < 200 * (t + 1)

\* C8: a session completion on the selected project calls reveal with
\* max(0, target - |revealed|), and afterwards the selected project has
\* max(previous |revealed|, target) revealed cells.
C8_SessionRevealsUpToTarget ==
  (ev.op = "session" /\ ev.selBefore # NoObj) =>
    LET target == SessionTarget(ev.selBefore, ev.pct2)
        had == Len(ev.selBefore.revealed)
    IN /\ ev.rvCalled
       /\ ev.rvCount = Max(0, target - had)
       /\ Len(ev.selAfter.revealed) = Max(had, target)

\* C10: no render and no reveal operates on a project whose grid is not the fixed one:
\* grid migration has run on a legacy project before.
C10_MigratedBeforeUse ==
  /\ \A i \in 1 .. Len(ev.rendered) : ev.rendered[i] = FixedTotal
  /\ ev.rvBefore # NoObj => Total(ev.rvBefore) = FixedTotal

----------------------------------------------------------------------------
(* Sessions and direct reveals on one project *)

----------------------------------------------------------------------------
(* Properties of grid migration *)

\* the project of the list with the id of b
InList(b) == heap[CHOOSE r \in Range(projects) : heap[r].id = b.id]

\* the completion percentage of a legacy project: its progress clamped to 0..100,
\* or round(100 * revealed count / total) when it has none
PriorPct(b) ==
  IF b.progress # NoProgress
    THEN (IF b.progress < 0 THEN 0 ELSE IF b.progress > 100 THEN 100 ELSE b.progress)
    ELSE CHOOSE q \in 0 .. 100 : IsRoundedPercent(q, Len(b.revealed), Total(b))

\* C11: grid migration leaves every legacy project 10x10 with round(pct) revealed
\* cells and progress round(pct), pct its prior completion percentage.
C11_MigrationKeepsPercentage ==
  ev.op = "migrateGrid" =>
    \A i \in 1 .. Len(ev.migrated) :
      LET b == ev.migrated[i]
          a == InList(b)
      IN /\ a.rows = 10 /\ a.cols = 10
         /\ Len(a.revealed) = PriorPct(b)
         /\ a.progress = PriorPct(b)

\* C12: grid migration on a list that was migrated when the page was loaded before
\* changes no project, and migration never leaves a grid of fewer than 100 cells.
C12_MigrationIdempotent ==
  [][ev'.op = "migrateGrid" =>
       /\ \A j \in DOMAIN projects' : Total(heap'[projects'[j]]) >= FixedTotal
       /\ used.loads >= 1 =>
            /\ ev'.migrated = << >>
            /\ Len(projects') = Len(projects)
            /\ \A j \in DOMAIN projects : heap'[projects'[j]] = heap[projects[j]]]_vars

C12_Witness ==
  /\ ev.op = "migrateGrid"
  /\ used.loads = 1
  /\ \E p \in Objects : p.id = 2 /\ Len(p.revealed) = 40 /\ p.progress = 40

\* C13: once grid migration has run, every project of the list is 10x10.
C13_AllTenByTen ==
  pc = "run" => \A j \in DOMAIN projects : heap[projects[j]].rows = 10 /\ heap[projects[j]].cols = 10

----------------------------------------------------------------------------
(* Properties of the edges and the piece signs *)

\* C14: for rows, cols >= 2, makeEdges(rows, cols) returns h with rows-1 rows of cols
\* entries and v with rows rows of cols-1 entries, every entry +1 or -1.
C14_EdgeArrayShapes ==
  (call.fn = "makeEdges" /\ call.rows >= 2 /\ call.cols >= 2) =>
    /\ Len(call.edges.h) = call.rows - 1
    /\ \A r \in 1 .. Len(call.edges.h) :
         /\ Len(call.edges.h[r]) = call.cols
         /\ \A c \in 1 .. call.cols : call.edges.h[r][c] \in {1, 0 - 1}
    /\ Len(call.edges.v) = call.rows
    /\ \A r \in 1 .. Len(call.edges.v) :
         /\ Len(call.edges.v[r]) = call.cols - 1
         /\ \A c \in 1 .. call.cols - 1 : call.edges.v[r][c] \in {1, 0 - 1}

C14_Witness ==
  /\ call.fn = "makeEdges"
  /\ call.rows = 3
  /\ call.cols = 4
  /\ \E c \in 1 .. 4 : call.edges.h[1][c] = 1
  /\ \E c \in 1 .. 4 : call.edges.h[1][c] = 0 - 1

\* the sign of a slot whose draw is d / RandDen
SlotOf(d) == IF 2 * d > RandDen THEN 1 ELSE 0 - 1

\* C15: every slot of makeEdges is +1 exactly when its draw is > 0.5 (a draw of 0.5
\* gives -1), the same draws give the same edges, and the call changes no project.
C15_EdgesFollowDraws ==
  [][call'.fn = "makeEdges" =>
       LET rows == call'.rows
           cols == call'.cols
           d == call'.draws
       IN /\ \A r \in 1 .. rows - 1 : \A c \in 1 .. cols :
               call'.edges.h[r][c] = SlotOf(d[(r - 1) * cols + c])
          /\ \A r \in 1 .. rows : \A c \in 1 .. cols - 1 :
               call'.edges.v[r][c] = SlotOf(d[(rows - 1) * cols + (r - 1) * (cols - 1) + c])
          /\ \A s \in Seeds : \A k0 \in FirstDraws :
               [k \in 1 .. EdgeDraws(rows, cols) |-> Draw(s, k0 + k - 1)] = d =>
                 makeEdges(rows, cols, s, k0) = call'.edges
          /\ UNCHANGED <<heap, projects, cache, localStore, remote>>]_vars

C15_Witness ==
  /\ call.fn = "makeEdges"
  /\ \E k \in 1 .. Len(call.draws) : 2 * call.draws[k] = RandDen
  /\ \E k \in 1 .. Len(call.draws) : 2 * call.draws[k] > RandDen
  /\ call.draws = [k \in 1 .. Len(call.draws) |-> Draw(1, k - 1)]
  /\ call.draws = [k \in 1 .. Len(call.draws) |-> Draw(1, 4 + k - 1)]

\* the signs of the piece of row r, column c of the last render
SignsAt(r, c) == call.signs[r * call.cols + c]

\* C16: in the main render and in the preview, the right sign of a piece and the left
\* sign of its right neighbour sum to 0, and so do the bottom sign of a piece and the
\* top sign of the piece below.
C16_NeighboursComplement ==
  call.fn \in {"render", "preview"} =>
    \A r \in 0 .. call.rows - 1 : \A c \in 0 .. call.cols - 1 :
      /\ c < call.cols - 1 => SignsAt(r, c).right + SignsAt(r, c + 1).left = 0
      /\ r < call.rows - 1 => SignsAt(r, c).bottom + SignsAt(r + 1, c).top = 0

C16_Witness ==
  /\ call.fn = "render"
  /\ call.rows = FixedRows
  /\ \E c \in 0 .. call.cols - 2 : SignsAt(0, c).right = 1
  /\ \E c \in 0 .. call.cols - 2 : SignsAt(0, c).right = 0 - 1

----------------------------------------------------------------------------
(* Properties of the piece outline *)

\* the point a path command ends at
EndOf(cmd) == <<cmd[Len(cmd) - 1], cmd[Len(cmd)]>>

\* C18: the outline of piecePath starts at (0,0), ends with Z reached from (0,0) or from
\* (0,h), passes the corners in the order top-left, top-right, bottom-right, bottom-left,
\* and for four flat sides is exactly the rectangle (0,0), (w,0), (w,h), (0,h).
C18_OutlineClosedThroughCorners ==
  call.fn = "piecePath" =>
    LET cmds == call.cmds
        n == Len(cmds)
        W == Milli * call.w
        H == Milli * call.h
        pts == [i \in 1 .. n - 1 |-> EndOf(cmds[i])]
        IsCorner(p) == p \in {<<0, 0>>, <<W, 0>>, <<W, H>>, <<0, H>>}
        corners == SelectSeq(pts, IsCorner)
    IN /\ cmds[1] = <<"M", 0, 0>>
       /\ cmds[n] = <<"Z">>
       /\ \A i \in 1 .. n - 1 : cmds[i][1] \in {"M", "L", "C"}
       /\ pts[n - 1] \in {<<0, 0>>, <<0, H>>}
       /\ corners \in {<< <<0, 0>>, <<W, 0>>, <<W, H>>, <<0, H>> >>,
                       << <<0, 0>>, <<W, 0>>, <<W, H>>, <<0, H>>, <<0, 0>> >>}
       /\ (call.signs = [top |-> 0, right |-> 0, bottom |-> 0, left |-> 0]) =>
            cmds = << <<"M", 0, 0>>, <<"L", W, 0>>, <<"L", W, H>>, <<"L", 0, H>>, <<"Z">> >>

C18_Witness ==
  /\ call.fn = "piecePath"
  /\ call.w = 40
  /\ call.h = 7
  /\ call.signs = [top |-> 1, right |-> 0 - 1, bottom |-> 0, left |-> 1]
  /\ Len(call.cmds) = 15
  /\ EndOf(call.cmds[14]) = <<0, 0>>

----------------------------------------------------------------------------
(* Frame of the edges *)

HasEdges(p) == p.hEdges # NoEdges /\ p.vEdges # NoEdges

\* C19: over every step of one account that is not the grid migration (session
\* completion and its reveal, render, save, selection, form, snapshot), a project of the
\* list that has hEdges and vEdges keeps its rows, cols, hEdges and vEdges (the project
\* taken by id).
C19_EdgesFrozen ==
  [][(ev'.op # "migrateGrid" /\ user' = user) =>
       \A i \in DOMAIN projects : \A j \in DOMAIN projects' :
         (heap[projects[i]].id = heap'[projects'[j]].id /\ HasEdges(heap[projects[i]])) =>
           /\ heap'[projects'[j]].rows = heap[projects[i]].rows
           /\ heap'[projects'[j]].cols = heap[projects[i]].cols
           /\ heap'[projects'[j]].hEdges = heap[projects[i]].hEdges
           /\ heap'[projects'[j]].vEdges = heap[projects[i]].vEdges]_vars

----------------------------------------------------------------------------
(* Properties of the layout *)

\* C20: the stage width and height computed by Puzzle.render never exceed the width and
\* height of the container, for every container size and aspect ratio, containers
\* narrower or shorter than 224px included.
C20_StageFitsContainer ==
  call.fn = "layout" =>
    /\ call.stage.W <= call.width
    /\ call.stage.H <= call.height

----------------------------------------------------------------------------
(* Error handling of Puzzle.reveal and Puzzle.render *)

\* C24: Puzzle.reveal called with a negative count reveals no cell, leaves revealed and
\* progress unchanged, and returns the number of cells it revealed.
C24_NegativeCountIsClamped ==
  (ev.op = "reveal" /\ ev.rvCalled /\ ev.rvCount < 0 /\ ev.rvBefore # NoObj) =>
    /\ ev.rvPick = << >>
    /\ CellSet(ev.rvAfter) = CellSet(ev.rvBefore)
    /\ ev.rvAfter.progress = ev.rvBefore.progress
    /\ ev.rvRet = Len(ev.rvPick)

----------------------------------------------------------------------------
(* Reveal and the project list *)

\* C21: whenever reveal has run on a project, the object it changed is the record of that
\* id in the in-memory project list, so the list handed to Store.save holds the updated
\* revealed set and progress.
C21_RevealedProjectIsInList ==
  (ev.rvCalled /\ ev.rvBefore # NoObj) =>
    \E i \in DOMAIN projects :
      /\ projects[i] = puzzle
      /\ heap[projects[i]].id = ev.rvAfter.id
      /\ heap[projects[i]].revealed = ev.rvAfter.revealed
      /\ heap[projects[i]].progress = ev.rvAfter.progress

\* C22: a session completion does not start a reveal on a project while the save of an
\* earlier reveal on the same project is still awaiting its commit.
C22_RevealsSerialized ==
  [][(ev'.op = "session" /\ ev'.rvCalled /\ ev'.rvBefore # NoObj) =>
       \A i \in DOMAIN tasks :
         ~(tasks[i].kind = "save" /\ tasks[i].what = ev'.rvBefore.id)]_vars

\* C23: when the save of a reveal fails, the session handler is not interrupted, reveal
\* has returned the number of cells it revealed, the project keeps its revealed cells
\* and progress of after the reveal, nothing is written, and no save is scheduled again.
C23_FailedSaveKeepsReveal ==
  [][(ev'.op = "session" /\ ev'.rvCalled /\ ev'.rvBefore # NoObj /\ ev'.saveFailed) =>
       /\ ~ev'.thrown
       /\ ev'.rvRet = Len(ev'.rvPick)
       /\ heap'[puzzle'] = ev'.rvAfter
       /\ CellSet(ev'.rvAfter) = CellSet(ev'.rvBefore) \cup Range(ev'.rvPick)
       /\ ev'.rvAfter.progress = RoundPct(Len(ev'.rvAfter.revealed), Total(ev'.rvAfter))
       /\ ev'.selAfter = ev'.rvAfter
       /\ localStore' = localStore
       /\ remote' = remote
       /\ tasks' = tasks]_vars

C23_Witness ==
  /\ ev.op = "session"
  /\ ev.saveFailed
  /\ ev.rvRet > 0
  /\ user = Uid
  /\ Len(heap[puzzle].revealed) > Len(localStore[Uid][1].revealed)

\* h is (rows-1) x cols and v is rows x (cols-1), every entry +1 or -1
WellShaped(p) ==
  /\ Len(p.hEdges) = p.rows - 1
  /\ \A r \in 1 .. Len(p.hEdges) :
       Len(p.hEdges[r]) = p.cols /\ \A c \in 1 .. p.cols : p.hEdges[r][c] \in {1, 0 - 1}
  /\ Len(p.vEdges) = p.rows
  /\ \A r \in 1 .. Len(p.vEdges) :
       Len(p.vEdges[r]) = p.cols - 1 /\ \A c \in 1 .. p.cols - 1 : p.vEdges[r][c] \in {1, 0 - 1}

\* C25: a render of a project that lacks hEdges or vEdges leaves it with both, of the
\* shapes of makeEdges and with entries +1 / -1, in the list and saved (localStorage of
\* a guest, the collection of a signed-in user); a render of a project that has both
\* changes and saves nothing.
C25_RenderRepairsEdges ==
  [][ev'.op = "render" =>
       LET p == heap[puzzle]
           q == heap'[puzzle']
       IN /\ ev'.rendered # << >>
          /\ WellShaped(q)
          /\ LacksEdges(p) =>
               /\ \E i \in DOMAIN projects' : projects'[i] = puzzle'
               /\ user = NoUser => \E i \in DOMAIN localStore'[NoUser] :
                                     localStore'[NoUser][i] = Slim(q)
               /\ user # NoUser => \E i \in DOMAIN remote' : remote'[i] = ToRemoteDoc(q)
          /\ ~LacksEdges(p) =>
               /\ q = p
               /\ localStore' = localStore
               /\ remote' = remote
               /\ tasks' = tasks]_vars

C25_Witness ==
  /\ ev.op = "render"
  /\ heap[puzzle].rows = 2
  /\ heap[puzzle].cols = 3
  /\ user = Uid
  /\ Len(tasks) = 1
  /\ remote[1].hEdgesS # Stringify(makeEdges(2, 3, 1, 1).h)
  /\ remote[1].vEdgesS # Stringify(makeEdges(2, 3, 1, 1).v)
  /\ WellShaped(heap[puzzle])

----------------------------------------------------------------------------
(* The remote encoding *)

\* C26: Store._fromRemoteDoc(p.id, Store._toRemoteDoc(p)) has the hEdges and vEdges of
\* p (absent when p has none), the id, rows, cols, revealed and progress of p, and no
\* hEdgesS / vEdgesS field.
C26_RemoteRoundTrip ==
  call.fn = "remoteDoc" =>
    /\ call.back.hEdges = call.p.hEdges
    /\ call.back.vEdges = call.p.vEdges
    /\ call.back.id = call.p.id
    /\ call.back.rows = call.p.rows
    /\ call.back.cols = call.p.cols
    /\ call.back.revealed = call.p.revealed
    /\ call.back.progress = call.p.progress
    /\ {"hEdgesS", "vEdgesS"} \cap DOMAIN call.back = {}

C26_Witness ==
  /\ call.fn = "remoteDoc"
  /\ call.p.rows = 3
  /\ call.p.hEdges # NoEdges
  /\ call.p.vEdges = NoEdges
  /\ call.doc.hEdgesS # NoString
  /\ call.doc.vEdgesS = NoString
  /\ \E r \in 1 .. 2 : \E c \in 1 .. 2 : call.back.hEdges[r][c] = 1

----------------------------------------------------------------------------
(* deleteProject *)

\* C27: once a confirmed deleteProject(id) has completed, no project of the list has that
\* id and the selection is null or a project of the list, in every later state (after a
\* later Store.load, a reload of the page, a snapshot that falls back to the offline copy).
C27_DeletedStaysDeleted ==
  used.deleted # {} =>
    /\ \A i \in DOMAIN projects : heap[projects[i]].id \notin used.deleted
    /\ selected = Null \/ \E i \in DOMAIN projects : projects[i] = selected

----------------------------------------------------------------------------
(* Accounts *)

AuthPending(ts) == \E i \in DOMAIN ts : ts[i].kind \in {"authCb", "authCont"}
IdsOf(recs) == [i \in DOMAIN recs |-> recs[i].id]

\* C28: when a login or logout has been processed (the auth state callback and the
\* continuation of the login / logout handler have both run, in either order), the
\* in-memory project list is the list stored under the key of the now-current account.
C28_ListFollowsAccount ==
  [][(used.auth > 0 /\ AuthPending(tasks) /\ ~AuthPending(tasks')) =>
       IdsOf([i \in DOMAIN projects' |-> heap'[projects'[i]]]) = IdsOf(localStore'[authCur'])]_vars

----------------------------------------------------------------------------
(* Image probes *)

\* C29: the imageAspect of a project is the aspect of that project's own image (the blob
\* of its imageRef or its imageDataUrl), whatever the selection did while the probe that
\* measured it was pending.
C29_AspectOfOwnImage ==
  \A r \in DOMAIN heap :
    heap[r].imageAspect # 0 => heap[r].imageAspect \in {heap[r].imageRef, heap[r].imageDataUrl}

----------------------------------------------------------------------------
(* Repeated sessions *)

Complete(p) == p.progress = 100 /\ Cardinality(Range(p.revealed)) = Total(p)

\* C30: with a whole session percentage of at least 1 and a selected 10x10 project,
\* sessions that keep completing bring the selected project to progress 100 with every
\* cell revealed; from then on a session completion reveals 0 cells and changes nothing
\* of the project.
C30_SessionsCompleteThePuzzle ==
  /\ (pc = "run" /\ selected # Null) ~> (selected # Null /\ Complete(heap[selected]))
  /\ [][(selected # Null /\ Complete(heap[selected]) /\ ev'.op = "session") =>
          /\ ev'.rvRet = 0
          /\ selected' # Null
          /\ heap'[selected'] = heap[selected]]_vars

----------------------------------------------------------------------------
(* Timer *)

\* C31: a countdown triggers the session completion once: the callback of an interval
\* calls onTimerComplete only when it brings the remaining time of a running timer to
\* zero or below, the timer is then stopped (running false, no handle, interval cleared,
\* left 0) at the call, and after the step no interval is left to call it again; a
\* paused, stopped or reset timer has no interval that could tick.
C31_CountdownCompletesOnce ==
  [][(ev'.op = "tick") =>
       /\ timer.running
       /\ ev'.completed <=> (ev'.delta >= 1 /\ timer.left - ev'.delta <= 0)
       /\ ev'.completed =>
            /\ ~ev'.atCall.running
            /\ ev'.atCall.id = Null
            /\ ev'.atCall.intervals = {}
            /\ ev'.atCall.left = 0
            /\ ev'.rvCalled
            /\ ~timer'.running /\ timer'.intervals = {} /\ timer'.left = 0]_vars

C31_Witness ==
  /\ ev.op = "tick"
  /\ ev.completed
  /\ ev.delta = 120
  /\ ev.rvRet = 4
  /\ timer.seconds = 120
  /\ timer.left = 0
  /\ ~timer.running

\* C32: running is true exactly when the Timer holds an interval handle, that handle is
\* the only active interval (none is active when it holds none), and 0 <= left <= seconds.
C32_TimerInvariant ==
  /\ timer.running <=> timer.id # Null
  /\ timer.intervals = IF timer.running THEN {timer.id} ELSE {}
  /\ 0 <= timer.left /\ timer.left <= timer.seconds

C32_Witness ==
  /\ ev.op = "startClick"
  /\ timer.running
  /\ timer.id = 1
  /\ timer.seconds = 180 * 60
  /\ timer.left = 180 * 60 - 120

====
